---- MODULE Spec2Model ----
(***************************************************************************)
(* The cache / storage engine of the YouTube transcript API:               *)
(*   services/cache.py    RedisCache, get_cache, cached                    *)
(*   services/storage.py  TranscriptStorage, get_storage                   *)
(* over one shared Redis key space.                                        *)
(*                                                                         *)
(* Strings that take part in key building are sequences of one-character   *)
(* strings, so that prefixes, joins and glob patterns are computed         *)
(* character by character as Redis and Python compute them.                *)
(***************************************************************************)
EXTENDS Integers, Sequences, FiniteSets, TLC

VARIABLES
    settings,           \* get_settings(): [redis_url (is it set), cache_ttl_seconds]
    cache_instance,     \* cache._cache_instance is not None
    enabled,            \* RedisCache.enabled of the process-wide instance
    cache_ttl,          \* RedisCache.cache_ttl of the process-wide instance
    storage_instance,   \* storage._storage_instance is not None
    storage_enabled,    \* TranscriptStorage.enabled
    store,              \* the Redis key space: key -> [val, ttl, by]
    now,                \* the wall clock read by datetime.now(), in ticks of TickSeconds
    pending,            \* async_wrapper calls suspended at `await func(...)`
    saving,             \* save_transcript calls of other server processes on the same
                        \* Redis, each between two of its Redis commands
    probe,              \* the calls of a pure function under examination and their results
    supplied,           \* history: what the saves since the last delete supplied, per video id
    last                \* history: the operation that completed last

vars == <<settings, cache_instance, enabled, cache_ttl, storage_instance,
          storage_enabled, store, now, pending, saving, probe, supplied, last>>

(***************************************************************************)
(* Bounds of the model.                                                    *)
(***************************************************************************)
MaxTicks == 2

(***************************************************************************)
(* Character strings.                                                      *)
(***************************************************************************)
RECURSIVE Join(_, _)
\* sep.join(parts)
Join(parts, sep) ==
    IF Len(parts) = 0 THEN <<>>
    ELSE IF Len(parts) = 1 THEN parts[1]
    ELSE parts[1] \o sep \o Join(Tail(parts), sep)

\* s.startswith(p)
StartsWith(s, p) == Len(s) >= Len(p) /\ SubSeq(s, 1, Len(p)) = p

RECURSIVE GlobMatch(_, _)
\* Redis KEYS pattern matching (stringmatchlen): `*` matches any run of
\* characters, `?` one character, every other character itself.
GlobMatch(pat, s) ==
    IF Len(pat) = 0 THEN Len(s) = 0
    ELSE IF pat[1] = "*"
         THEN \E i \in 0..Len(s) : GlobMatch(Tail(pat), SubSeq(s, i + 1, Len(s)))
    ELSE IF Len(s) = 0 THEN FALSE
    ELSE /\ (pat[1] = "?" \/ pat[1] = s[1])
         /\ GlobMatch(Tail(pat), Tail(s))

Colon == <<":">>

\* the printable ASCII characters, from code 32 on (the double quote, the backslash
\* and the backtick, which no string of the model holds, are spelled out)
ASCII ==
    <<" ", "!", "quote", "#", "$", "%", "&", "'", "(", ")", "*", "+", ",", "-", ".", "/",
      "0", "1", "2", "3", "4", "5", "6", "7", "8", "9", ":", ";", "<", "=", ">", "?",
      "@", "A", "B", "C", "D", "E", "F", "G", "H", "I", "J", "K", "L", "M", "N", "O",
      "P", "Q", "R", "S", "T", "U", "V", "W", "X", "Y", "Z", "[", "backslash", "]", "^", "_",
      "backtick", "a", "b", "c", "d", "e", "f", "g", "h", "i", "j", "k", "l", "m", "n", "o",
      "p", "q", "r", "s", "t", "u", "v", "w", "x", "y", "z", "{", "|", "}", "~">>

\* the code of each character, ASCII[i] |-> 31 + i, written out
CharCode ==
    (" " :> 32) @@ ("!" :> 33) @@ ("quote" :> 34) @@ ("#" :> 35) @@ ("$" :> 36) @@ ("%" :> 37)
    @@ ("&" :> 38) @@ ("'" :> 39) @@ ("(" :> 40) @@ (")" :> 41) @@ ("*" :> 42) @@ ("+" :> 43)
    @@ ("," :> 44) @@ ("-" :> 45) @@ ("." :> 46) @@ ("/" :> 47) @@ ("0" :> 48) @@ ("1" :> 49)
    @@ ("2" :> 50) @@ ("3" :> 51) @@ ("4" :> 52) @@ ("5" :> 53) @@ ("6" :> 54) @@ ("7" :> 55)
    @@ ("8" :> 56) @@ ("9" :> 57) @@ (":" :> 58) @@ (";" :> 59) @@ ("<" :> 60) @@ ("=" :> 61)
    @@ (">" :> 62) @@ ("?" :> 63) @@ ("@" :> 64) @@ ("A" :> 65) @@ ("B" :> 66) @@ ("C" :> 67)
    @@ ("D" :> 68) @@ ("E" :> 69) @@ ("F" :> 70) @@ ("G" :> 71) @@ ("H" :> 72) @@ ("I" :> 73)
    @@ ("J" :> 74) @@ ("K" :> 75) @@ ("L" :> 76) @@ ("M" :> 77) @@ ("N" :> 78) @@ ("O" :> 79)
    @@ ("P" :> 80) @@ ("Q" :> 81) @@ ("R" :> 82) @@ ("S" :> 83) @@ ("T" :> 84) @@ ("U" :> 85)
    @@ ("V" :> 86) @@ ("W" :> 87) @@ ("X" :> 88) @@ ("Y" :> 89) @@ ("Z" :> 90) @@ ("[" :> 91)
    @@ ("backslash" :> 92) @@ ("]" :> 93) @@ ("^" :> 94) @@ ("_" :> 95) @@ ("backtick" :> 96) @@ ("a" :> 97)
    @@ ("b" :> 98) @@ ("c" :> 99) @@ ("d" :> 100) @@ ("e" :> 101) @@ ("f" :> 102) @@ ("g" :> 103)
    @@ ("h" :> 104) @@ ("i" :> 105) @@ ("j" :> 106) @@ ("k" :> 107) @@ ("l" :> 108) @@ ("m" :> 109)
    @@ ("n" :> 110) @@ ("o" :> 111) @@ ("p" :> 112) @@ ("q" :> 113) @@ ("r" :> 114) @@ ("s" :> 115)
    @@ ("t" :> 116) @@ ("u" :> 117) @@ ("v" :> 118) @@ ("w" :> 119) @@ ("x" :> 120) @@ ("y" :> 121)
    @@ ("z" :> 122) @@ ("{" :> 123) @@ ("|" :> 124) @@ ("}" :> 125) @@ ("~" :> 126)

\* ord(c)
Ord(c) == CharCode[c]

HexDigit(n) ==
    CASE n = 10 -> "a" [] n = 11 -> "b" [] n = 12 -> "c" [] n = 13 -> "d"
      [] n = 14 -> "e" [] n = 15 -> "f" [] n = 0 -> "0" [] n = 1 -> "1"
      [] n = 2 -> "2" [] n = 3 -> "3" [] n = 4 -> "4" [] n = 5 -> "5"
      [] n = 6 -> "6" [] n = 7 -> "7" [] n = 8 -> "8" [] OTHER -> "9"

\* hashlib.md5(s.encode()).hexdigest(): a string of hex digits that is a
\* function of the bytes of s.  The digest is modelled by an injective code
\* (the hex of the bytes): md5 has no known collision among inputs this short.
hexdigest(s) ==
    [i \in 1..(2 * Len(s)) |->
        IF i % 2 = 1 THEN HexDigit(Ord(s[(i + 1) \div 2]) \div 16)
        ELSE HexDigit(Ord(s[i \div 2]) % 16)]

(***************************************************************************)
(* Python values.  Every value is a record [ty, text, items]: `text` is    *)
(* the string of a str / the digits of an int, `items` the elements of a   *)
(* container (a dict's items are key/value pairs in insertion order).      *)
(***************************************************************************)
PyNone     == [ty |-> "NoneType", text |-> <<>>, items |-> <<>>]
PyStr(s)   == [ty |-> "str",   text |-> s,    items |-> <<>>]
PyInt(d)   == [ty |-> "int",   text |-> d,    items |-> <<>>]
PyBool(b)  == [ty |-> "bool",  text |-> IF b THEN <<"1">> ELSE <<"0">>, items |-> <<>>]
PyList(xs) == [ty |-> "list",  text |-> <<>>, items |-> xs]
PyTuple(xs) == [ty |-> "tuple", text |-> <<>>, items |-> xs]
PySet(xs)  == [ty |-> "set",   text |-> <<>>, items |-> xs]
PyItem(k, v) == [ty |-> "item", text |-> <<>>, items |-> <<k, v>>]
PyDict(kvs) == [ty |-> "dict", text |-> <<>>, items |-> kvs]
EmptyDict  == PyDict(<<>>)

\* bool(v): Python truthiness
Truthy(v) ==
    CASE v.ty = "NoneType" -> FALSE
      [] v.ty = "str" -> Len(v.text) > 0
      [] v.ty = "int" -> v.text # <<"0">>
      [] v.ty = "bool" -> v.text = <<"1">>
      [] OTHER -> Len(v.items) > 0

\* the position of key k in dict d, 0 when absent
DictIndex(d, k) ==
    LET hits == {i \in 1..Len(d.items) : d.items[i].items[1] = k}
    IN  IF hits = {} THEN 0 ELSE CHOOSE i \in hits : TRUE

\* k in d
DictHas(d, k) == DictIndex(d, k) # 0

\* d[k]  (only used where k in d)
DictGet(d, k) == d.items[DictIndex(d, k)].items[2]

\* d[k] = v: an existing key keeps its position, a new key goes last
DictSet(d, k, v) ==
    IF DictHas(d, k)
    THEN PyDict([d.items EXCEPT ![DictIndex(d, k)] = PyItem(k, v)])
    ELSE PyDict(Append(d.items, PyItem(k, v)))

RECURSIVE DictUpdate(_, _)
\* d.update(m)
DictUpdate(d, m) ==
    IF Len(m.items) = 0 THEN d
    ELSE DictUpdate(DictSet(d, m.items[1].items[1], m.items[1].items[2]),
                    PyDict(Tail(m.items)))

\* x in xs, for a list xs
ListHas(xs, x) == \E i \in 1..Len(xs.items) : xs.items[i] = x

\* xs.append(x)
ListAppend(xs, x) == PyList(Append(xs.items, x))

(***************************************************************************)
(* JSON.  A JSON text is modelled by the document it spells:               *)
(* [ty, text, items] with ty in null, true, false, number, string, array,  *)
(* object; an object's items are members [text |-> name, items |-> <<v>>]. *)
(***************************************************************************)
JsonTypeError == [ty |-> "TypeError", text |-> <<>>, items |-> <<>>]
JsonMember(name, v) == [ty |-> "member", text |-> name, items |-> <<v>>]

\* what json.dumps writes for a dict key; <<"!">> marks a key it rejects
\* (TypeError: keys must be str, int, float, bool or None)
JsonKeyText(k) ==
    CASE k.ty = "str" -> k.text
      [] k.ty = "int" -> k.text
      [] k.ty = "bool" -> IF k.text = <<"1">> THEN <<"t","r","u","e">>
                          ELSE <<"f","a","l","s","e">>
      [] k.ty = "NoneType" -> <<"n","u","l","l">>
      [] OTHER -> <<"!">>

JsonKeyOk(k) == k.ty \in {"str", "int", "bool", "NoneType"}

RECURSIVE json_dumps(_)
\* json.dumps(v): the document written, or JsonTypeError when v holds
\* something the encoder rejects
json_dumps(v) ==
    CASE v.ty = "NoneType" -> [ty |-> "null", text |-> <<>>, items |-> <<>>]
      [] v.ty = "str" -> [ty |-> "string", text |-> v.text, items |-> <<>>]
      [] v.ty = "int" -> [ty |-> "number", text |-> v.text, items |-> <<>>]
      [] v.ty = "bool" -> [ty |-> IF v.text = <<"1">> THEN "true" ELSE "false",
                           text |-> <<>>, items |-> <<>>]
      [] v.ty \in {"list", "tuple"} ->
            LET parts == [i \in 1..Len(v.items) |-> json_dumps(v.items[i])]
            IN  IF \E i \in 1..Len(parts) : parts[i] = JsonTypeError
                THEN JsonTypeError
                ELSE [ty |-> "array", text |-> <<>>, items |-> parts]
      [] v.ty = "dict" ->
            LET vals == [i \in 1..Len(v.items) |-> json_dumps(v.items[i].items[2])]
            IN  IF \/ \E i \in 1..Len(vals) : vals[i] = JsonTypeError
                   \/ \E i \in 1..Len(v.items) : ~JsonKeyOk(v.items[i].items[1])
                THEN JsonTypeError
                ELSE [ty |-> "object", text |-> <<>>,
                      items |-> [i \in 1..Len(v.items) |->
                                   JsonMember(JsonKeyText(v.items[i].items[1]), vals[i])]]
      [] OTHER -> JsonTypeError

RECURSIVE json_loads(_)
RECURSIVE LoadMembers(_, _)
\* the dict built from an object's members, left to right: a repeated name
\* keeps its first position and takes the last value
LoadMembers(d, ms) ==
    IF Len(ms) = 0 THEN d
    ELSE LoadMembers(DictSet(d, PyStr(ms[1].text), json_loads(ms[1].items[1])), Tail(ms))

\* json.loads(text) of a well-formed document
json_loads(j) ==
    CASE j.ty = "null" -> PyNone
      [] j.ty = "string" -> PyStr(j.text)
      [] j.ty = "number" -> PyInt(j.text)
      [] j.ty = "true" -> PyBool(TRUE)
      [] j.ty = "false" -> PyBool(FALSE)
      [] j.ty = "array" -> PyList([i \in 1..Len(j.items) |-> json_loads(j.items[i])])
      [] OTHER -> LoadMembers(EmptyDict, j.items)

\* a transcript body as Redis holds it: the text itself, not a JSON document
RawText(s) == [ty |-> "raw", text |-> s, items |-> <<>>]

\* bool(value) of a string read from Redis (decode_responses=True): a JSON
\* text is never empty, a raw text is empty when its body is
TextTruthy(t) == IF t.ty = "raw" THEN Len(t.text) > 0 ELSE TRUE

(***************************************************************************)
(* Keys.                                                                   *)
(***************************************************************************)
\* the literal "youtube_api" of _generate_key and of clear_all's pattern
YOUTUBE_API == <<"y","o","u","t","u","b","e","_","a","p","i">>
\* TranscriptStorage.STORAGE_PREFIX
STORAGE_PREFIX == <<"t","r","a","n","s","c","r","i","p","t","_","s","t","o","r","a","g","e">>
\* TranscriptStorage.METADATA_PREFIX
METADATA_PREFIX == <<"t","r","a","n","s","c","r","i","p","t","_","m","e","t","a","d","a","t","a">>

RECURSIVE ReprItems(_)
ReprItems(xs) ==
    IF Len(xs) = 0 THEN <<>>
    ELSE <<"'">> \o xs[1].text \o <<"'">>
         \o (IF Len(xs) = 1 THEN <<>> ELSE <<",", " ">> \o ReprItems(Tail(xs)))

\* str(v) for the argument types the wrapped functions take: a str is itself,
\* None is "None", a list of str is its repr
PyToStr(v) ==
    CASE v.ty = "str" -> v.text
      [] v.ty = "int" -> v.text
      [] v.ty = "NoneType" -> <<"N","o","n","e">>
      [] OTHER -> <<"[">> \o ReprItems(v.items) \o <<"]">>

RECURSIVE StrLess(_, _)
\* a < b for Python str: lexicographic by code point
StrLess(a, b) ==
    IF Len(b) = 0 THEN FALSE
    ELSE IF Len(a) = 0 THEN TRUE
    ELSE IF a[1] # b[1] THEN Ord(a[1]) < Ord(b[1])
    ELSE StrLess(Tail(a), Tail(b))

RECURSIVE SortedItems(_)
\* sorted(kwargs.items()): keyword names are distinct, so the order is that
\* of the names
SortedItems(kws) ==
    IF Len(kws) = 0 THEN <<>>
    ELSE LET m == CHOOSE i \in 1..Len(kws) :
                    \A j \in 1..Len(kws) : j = i \/ StrLess(kws[i][1], kws[j][1])
         IN  <<kws[m]>> \o SortedItems([i \in 1..(Len(kws) - 1) |->
                                          IF i < m THEN kws[i] ELSE kws[i + 1]])

\* _generate_key that takes the keyword arguments in call order
_generate_key_unsorted(prefix, args, kwargs) ==
    LET key_parts == [i \in 1..Len(args) |-> PyToStr(args[i])]
                     \o [i \in 1..Len(kwargs) |->
                            kwargs[i][1] \o <<"=">> \o PyToStr(kwargs[i][2])]
    IN  YOUTUBE_API \o Colon \o prefix \o Colon \o hexdigest(Join(key_parts, Colon))

\* RedisCache._generate_key(prefix, *args, **kwargs); kwargs is the sequence
\* of <<name, value>> pairs in call order
_generate_key(prefix, args, kwargs) ==
    LET skw == SortedItems(kwargs)
        key_parts == [i \in 1..Len(args) |-> PyToStr(args[i])]
                     \o [i \in 1..Len(skw) |-> skw[i][1] \o <<"=">> \o PyToStr(skw[i][2])]
        key_string == Join(key_parts, Colon)
        key_hash == hexdigest(key_string)
    IN  YOUTUBE_API \o Colon \o prefix \o Colon \o key_hash

\* TranscriptStorage._get_storage_key(video_id, language)
_get_storage_key(video_id, language) ==
    IF Truthy(language)
    THEN STORAGE_PREFIX \o Colon \o video_id \o Colon \o language.text
    ELSE STORAGE_PREFIX \o Colon \o video_id

\* the metadata key built with the transcripts' prefix
_get_metadata_key_storage(video_id) == STORAGE_PREFIX \o Colon \o video_id

\* TranscriptStorage._get_metadata_key(video_id)
_get_metadata_key(video_id) == METADATA_PREFIX \o Colon \o video_id

(***************************************************************************)
(* The Redis server, as the redis-py client shows it.  An entry is         *)
(* [val, ttl, by]: the text, the TTL given to SETEX, and (history) which   *)
(* code path wrote it.  A command whose `fail` is TRUE raises              *)
(* ConnectionError before it has any effect.                               *)
(***************************************************************************)
Nil == [ty |-> "nil", text |-> <<>>, items |-> <<>>]

\* GET key
RedisGet(st, key) == IF key \in DOMAIN st THEN st[key].val ELSE Nil

\* SETEX key ttl value; Redis rejects a TTL that is not positive
RedisSetexOk(ttl) == ttl > 0
RedisSetex(st, key, ttl, val, by) ==
    [k \in (DOMAIN st) \cup {key} |->
        IF k = key THEN [val |-> val, ttl |-> ttl, by |-> by] ELSE st[k]]

\* KEYS pattern (a set: the order of the reply is the server's)
RedisKeys(st, pattern) == {k \in DOMAIN st : GlobMatch(pattern, k)}

\* DEL key [key ...]
RedisDel(st, keys) == [k \in (DOMAIN st) \ keys |-> st[k]]

\* what bool() of a GET reply is: nil is None
ReplyTruthy(v) == v.ty # "nil" /\ TextTruthy(v)

\* the TTL save_transcript gives SETEX ("10 years")
STORAGE_TTL == 315360000
\* the default of RedisCache.__init__'s cache_ttl parameter
CACHE_TTL_PARAM == 3600
\* the seconds of one tick of the clock: the longest TTL of a cache entry
TickSeconds == CACHE_TTL_PARAM

\* Python's `a or b` on an Optional[int] (0 stands for None)
IntOr(a, b) == IF a # 0 THEN a ELSE b

(***************************************************************************)
(* String literals of the source.                                          *)
(***************************************************************************)
S_enabled == <<"e","n","a","b","l","e","d">>
S_status == <<"s","t","a","t","u","s">>
S_disabled == <<"d","i","s","a","b","l","e","d">>
S_connected == <<"c","o","n","n","e","c","t","e","d">>
S_error == <<"e","r","r","o","r">>
S_total_keys == <<"t","o","t","a","l","_","k","e","y","s">>
S_ttl_seconds == <<"t","t","l","_","s","e","c","o","n","d","s">>
S_keyspace_hits == <<"k","e","y","s","p","a","c","e","_","h","i","t","s">>
S_keyspace_misses == <<"k","e","y","s","p","a","c","e","_","m","i","s","s","e","s">>
S_languages == <<"l","a","n","g","u","a","g","e","s">>
S_last_updated == <<"l","a","s","t","_","u","p","d","a","t","e","d">>
S_created_at == <<"c","r","e","a","t","e","d","_","a","t">>
S_video_id == <<"v","i","d","e","o","_","i","d">>
S_total_transcripts == <<"t","o","t","a","l","_","t","r","a","n","s","c","r","i","p","t","s">>
S_total_videos == <<"t","o","t","a","l","_","v","i","d","e","o","s">>
S_title == <<"t","i","t","l","e">>
S_author == <<"a","u","t","h","o","r">>
S_thumbnail_url == <<"t","h","u","m","b","n","a","i","l","_","u","r","l">>
S_ConnectionError == <<"C","o","n","n","e","c","t","i","o","n","E","r","r","o","r">>

\* str(n) for a small natural number
RECURSIVE Digits(_)
Digits(n) == IF n < 10 THEN <<HexDigit(n)>> ELSE Digits(n \div 10) \o <<HexDigit(n % 10)>>

\* datetime.now().isoformat(): the clock reading as text
IsoFormat(t) == <<"T">> \o Digits(t)

(***************************************************************************)
(* RedisCache.  `self` is [enabled, client, cache_ttl]; a method yields    *)
(* [ret, exc, st, calls, errs]: the value returned, the exception that     *)
(* left the method ("" when none), the key space afterwards, the number of *)
(* Redis commands it issued and the commands among them that raised.       *)
(***************************************************************************)
Out(ret, exc, st, calls, errs) ==
    [ret |-> ret, exc |-> exc, st |-> st, calls |-> calls, errs |-> errs]

\* RedisCache.__init__ falling back to a server on localhost when no URL is
\* configured
RedisCache_init_localhost(cfg, cache_ttl_arg, ping) ==
    [enabled |-> ping, client |-> ping,
     cache_ttl |-> IntOr(cache_ttl_arg, cfg.cache_ttl_seconds)]

\* RedisCache.__init__(redis_url=None, cache_ttl=...): cfg is get_settings(),
\* `ping` tells whether the connection test succeeds
RedisCache_init(cfg, cache_ttl_arg, ping) ==
    LET en == cfg.redis_url /\ ping
    IN  [enabled |-> en, client |-> en,
         cache_ttl |-> IntOr(cache_ttl_arg, cfg.cache_ttl_seconds)]

\* the try block of RedisCache.get
get_try(self, st, key, fail) ==
    IF fail THEN Out(PyNone, "ConnectionError", st, 1, {"get"})
    ELSE LET value == RedisGet(st, key)
         IN  IF ReplyTruthy(value)
             THEN IF value.ty = "raw"
                  THEN Out(PyNone, "JSONDecodeError", st, 1, {})
                  ELSE Out(json_loads(value), "", st, 1, {})
             ELSE Out(PyNone, "", st, 1, {})

\* RedisCache.get without its `except Exception` handler
cache_get_unprotected(self, st, key, fail) ==
    IF ~self.enabled \/ ~self.client THEN Out(PyNone, "", st, 0, {})
    ELSE get_try(self, st, key, fail)

\* RedisCache.get(key)
cache_get(self, st, key, fail) ==
    IF ~self.enabled \/ ~self.client THEN Out(PyNone, "", st, 0, {})
    ELSE LET r == get_try(self, st, key, fail)
         IN  IF r.exc # "" THEN [r EXCEPT !.ret = PyNone, !.exc = ""] ELSE r

\* the try block of RedisCache.set with SETEX's time and value exchanged:
\* Redis rejects a time that is not an integer
set_try_swapped(self, st, key, value, ttl, fail, by) ==
    IF json_dumps(value) = JsonTypeError THEN Out(PyNone, "TypeError", st, 0, {})
    ELSE IF fail THEN Out(PyNone, "ConnectionError", st, 1, {"setex"})
    ELSE Out(PyNone, "ResponseError", st, 1, {})

\* the try block of RedisCache.set
set_try(self, st, key, value, ttl, fail, by) ==
    LET t == IntOr(ttl, self.cache_ttl)
        serialized == json_dumps(value)
    IN  IF serialized = JsonTypeError THEN Out(PyNone, "TypeError", st, 0, {})
        ELSE IF fail THEN Out(PyNone, "ConnectionError", st, 1, {"setex"})
        ELSE IF ~RedisSetexOk(t) THEN Out(PyNone, "ResponseError", st, 1, {})
        ELSE Out(PyBool(TRUE), "", RedisSetex(st, key, t, serialized, by), 1, {})

\* RedisCache.set(key, value, ttl=None)
cache_set(self, st, key, value, ttl, fail, by) ==
    IF ~self.enabled \/ ~self.client THEN Out(PyBool(FALSE), "", st, 0, {})
    ELSE LET r == set_try(self, st, key, value, ttl, fail, by)
         IN  IF r.exc # "" THEN [r EXCEPT !.ret = PyBool(FALSE), !.exc = ""] ELSE r

\* the try block of RedisCache.delete
delete_try(self, st, key, fail) ==
    IF fail THEN Out(PyNone, "ConnectionError", st, 1, {"delete"})
    ELSE Out(PyBool(TRUE), "", RedisDel(st, {key}), 1, {})

\* RedisCache.delete(key)
cache_delete(self, st, key, fail) ==
    IF ~self.enabled \/ ~self.client THEN Out(PyBool(FALSE), "", st, 0, {})
    ELSE LET r == delete_try(self, st, key, fail)
         IN  IF r.exc # "" THEN [r EXCEPT !.ret = PyBool(FALSE), !.exc = ""] ELSE r

\* a pattern without the colon that closes the prefix
CLEAR_PATTERN_loose == <<"y","o","u","t","u","b","e","_","a","p","i","*">>

\* the pattern clear_all and get_stats scan with
CLEAR_PATTERN == YOUTUBE_API \o <<":", "*">>

\* a clear_all that deletes one of the keys of the reply
clear_all_try_one(self, st, fails) ==
    IF "keys" \in fails THEN Out(PyNone, "ConnectionError", st, 1, {"keys"})
    ELSE LET keys == RedisKeys(st, CLEAR_PATTERN)
         IN  IF keys # {}
             THEN IF "delete" \in fails
                  THEN Out(PyNone, "ConnectionError", st, 2, {"delete"})
                  ELSE Out(PyBool(TRUE), "", RedisDel(st, {CHOOSE k \in keys : TRUE}), 2, {})
             ELSE Out(PyBool(TRUE), "", st, 1, {})
\* the try block of RedisCache.clear_all; fails = the commands that raise
clear_all_try(self, st, fails) ==
    IF "keys" \in fails THEN Out(PyNone, "ConnectionError", st, 1, {"keys"})
    ELSE LET keys == RedisKeys(st, CLEAR_PATTERN)
         IN  IF keys # {}
             THEN IF "delete" \in fails
                  THEN Out(PyNone, "ConnectionError", st, 2, {"delete"})
                  ELSE Out(PyBool(TRUE), "", RedisDel(st, keys), 2, {})
             ELSE Out(PyBool(TRUE), "", st, 1, {})

\* RedisCache.clear_all()
cache_clear_all(self, st, fails) ==
    IF ~self.enabled \/ ~self.client THEN Out(PyBool(FALSE), "", st, 0, {})
    ELSE LET r == clear_all_try(self, st, fails)
         IN  IF r.exc # "" THEN [r EXCEPT !.ret = PyBool(FALSE), !.exc = ""] ELSE r

\* the try block of RedisCache.get_stats; info is the server's INFO stats
\* reply, [keyspace_hits, keyspace_misses]
get_stats_try(self, st, info, fails) ==
    IF "info" \in fails THEN Out(PyNone, "ConnectionError", st, 1, {"info"})
    ELSE IF "keys" \in fails THEN Out(PyNone, "ConnectionError", st, 2, {"keys"})
    ELSE Out(PyDict(<<PyItem(PyStr(S_enabled), PyBool(TRUE)),
                      PyItem(PyStr(S_status), PyStr(S_connected)),
                      PyItem(PyStr(S_total_keys),
                             PyInt(Digits(Cardinality(RedisKeys(st, CLEAR_PATTERN))))),
                      PyItem(PyStr(S_ttl_seconds), PyInt(Digits(self.cache_ttl))),
                      PyItem(PyStr(S_keyspace_hits), PyInt(Digits(info.keyspace_hits))),
                      PyItem(PyStr(S_keyspace_misses), PyInt(Digits(info.keyspace_misses)))>>),
             "", st, 2, {})

\* RedisCache.get_stats()
cache_get_stats(self, st, info, fails) ==
    IF ~self.enabled \/ ~self.client
    THEN Out(PyDict(<<PyItem(PyStr(S_enabled), PyBool(FALSE)),
                      PyItem(PyStr(S_status), PyStr(S_disabled))>>), "", st, 0, {})
    ELSE LET r == get_stats_try(self, st, info, fails)
         IN  IF r.exc # ""
             THEN [r EXCEPT !.exc = "",
                            !.ret = PyDict(<<PyItem(PyStr(S_enabled), PyBool(TRUE)),
                                             PyItem(PyStr(S_status), PyStr(S_error)),
                                             PyItem(PyStr(S_error), PyStr(S_ConnectionError))>>)]
             ELSE r

\* a get_cache() that builds the instance again while it is disabled
get_cache_retry(ping) ==
    IF cache_instance /\ enabled
    THEN [enabled |-> enabled, client |-> enabled, cache_ttl |-> cache_ttl]
    ELSE RedisCache_init(settings, CACHE_TTL_PARAM, ping)
\* a get_cache() that builds a RedisCache at every call
get_cache_fresh(ping) == RedisCache_init(settings, CACHE_TTL_PARAM, ping)
\* get_cache(): the process-wide instance, built by RedisCache() on first use
get_cache(ping) ==
    IF cache_instance
    THEN [enabled |-> enabled, client |-> enabled, cache_ttl |-> cache_ttl]
    ELSE RedisCache_init(settings, CACHE_TTL_PARAM, ping)

(***************************************************************************)
(* TranscriptStorage.  `self` is [enabled, cache]; every method returns    *)
(* Out(...) as those of RedisCache do; `fails` names the commands of the   *)
(* method that raise.                                                      *)
(***************************************************************************)
\* TranscriptStorage.__init__()
TranscriptStorage_init(cache) == [enabled |-> cache.enabled, cache |-> cache]

\* get_storage(): the process-wide instance, built on first use
get_storage(ping) ==
    IF storage_instance
    THEN [enabled |-> storage_enabled, cache |-> get_cache(ping)]
    ELSE TranscriptStorage_init(get_cache(ping))

\* the str a GET returns (decode_responses=True)
ReplyStr(v) ==
    IF v.ty = "raw" THEN PyStr(v.text) ELSE [ty |-> "str", text |-> <<"{">>, items |-> <<v>>]

\* the try block of TranscriptStorage.get_metadata
get_metadata_try(self, st, video_id, fail) ==
    IF fail THEN Out(PyNone, "ConnectionError", st, 1, {"get_meta"})
    ELSE LET metadata_json == RedisGet(st, _get_metadata_key(video_id))
         IN  IF ReplyTruthy(metadata_json)
             THEN IF metadata_json.ty = "raw"
                  THEN Out(PyNone, "JSONDecodeError", st, 1, {})
                  ELSE Out(json_loads(metadata_json), "", st, 1, {})
             ELSE Out(PyNone, "", st, 1, {})

\* TranscriptStorage.get_metadata(video_id)
storage_get_metadata(self, st, video_id, fail) ==
    IF ~self.enabled THEN Out(PyNone, "", st, 0, {})
    ELSE LET r == get_metadata_try(self, st, video_id, fail)
         IN  IF r.exc # "" THEN [r EXCEPT !.ret = PyNone, !.exc = ""] ELSE r

\* sub in s, for two str
IsSubstring(sub, s) ==
    \E i \in 1..(Len(s) - Len(sub) + 1) : SubSeq(s, i, i + Len(sub) - 1) = sub

\* lines 72-76 of save_transcript: the language joins existing["languages"];
\* the result is [exc, d]
AddLanguage(existing, language) ==
    IF ~Truthy(language) THEN [exc |-> "", d |-> existing]
    ELSE IF existing.ty # "dict" THEN [exc |-> "TypeError", d |-> existing]
    ELSE LET d1 == IF DictHas(existing, PyStr(S_languages)) THEN existing
                   ELSE DictSet(existing, PyStr(S_languages), PyList(<<>>))
             ls == DictGet(d1, PyStr(S_languages))
         IN  CASE ls.ty = "list" ->
                    [exc |-> "",
                     d |-> IF ListHas(ls, language) THEN d1
                           ELSE DictSet(d1, PyStr(S_languages), ListAppend(ls, language))]
               [] ls.ty = "str" ->
                    IF IsSubstring(language.text, ls.text) THEN [exc |-> "", d |-> d1]
                    ELSE [exc |-> "AttributeError", d |-> d1]
               [] ls.ty \in {"tuple", "set", "dict"} ->
                    IF \/ ls.ty # "dict" /\ ListHas(ls, language)
                       \/ ls.ty = "dict" /\ DictHas(ls, language)
                    THEN [exc |-> "", d |-> d1]
                    ELSE [exc |-> "AttributeError", d |-> d1]
               [] OTHER -> [exc |-> "TypeError", d |-> d1]

\* a merge that starts from an empty record whatever was read
MergeAndStamp_fresh(existing, metadata, t) ==
    LET merged == IF Truthy(metadata) THEN DictUpdate(EmptyDict, metadata) ELSE EmptyDict
        stamped == DictSet(merged, PyStr(S_last_updated), PyStr(IsoFormat(t)))
    IN  DictSet(stamped, PyStr(S_created_at), PyStr(IsoFormat(t)))

\* lines 79-85 of save_transcript: the supplied metadata and the timestamps
MergeAndStamp(existing, metadata, t) ==
    LET merged == IF Truthy(metadata) THEN DictUpdate(existing, metadata) ELSE existing
        stamped == DictSet(merged, PyStr(S_last_updated), PyStr(IsoFormat(t)))
    IN  IF DictHas(stamped, PyStr(S_created_at)) THEN stamped
        ELSE DictSet(stamped, PyStr(S_created_at), PyStr(IsoFormat(t)))

\* the try block of TranscriptStorage.save_transcript; t is datetime.now()
save_transcript_try(self, st, video_id, transcript, language, metadata, t, fails) ==
    IF "setex_t" \in fails THEN Out(PyNone, "ConnectionError", st, 1, {"setex_t"})
    ELSE
    LET st1 == RedisSetex(st, _get_storage_key(video_id, language), STORAGE_TTL,
                          RawText(transcript), "transcript")
        m == storage_get_metadata(self, st1, video_id, "get_meta" \in fails)
        existing_metadata == IF Truthy(m.ret) THEN m.ret ELSE EmptyDict
        a == AddLanguage(existing_metadata, language)
        doc == json_dumps(MergeAndStamp(a.d, metadata, t))
    IN  IF a.exc # "" THEN Out(PyNone, a.exc, st1, 1 + m.calls, m.errs)
        ELSE IF doc = JsonTypeError THEN Out(PyNone, "TypeError", st1, 1 + m.calls, m.errs)
        ELSE IF "setex_m" \in fails
        THEN Out(PyNone, "ConnectionError", st1, 2 + m.calls, m.errs \cup {"setex_m"})
        ELSE Out(PyBool(TRUE), "",
                 RedisSetex(st1, _get_metadata_key(video_id), STORAGE_TTL, doc, "metadata"),
                 2 + m.calls, m.errs)

\* TranscriptStorage.save_transcript(video_id, transcript, language, metadata)
storage_save_transcript(self, st, video_id, transcript, language, metadata, t, fails) ==
    IF ~self.enabled THEN Out(PyBool(FALSE), "", st, 0, {})
    ELSE LET r == save_transcript_try(self, st, video_id, transcript, language, metadata,
                                      t, fails)
         IN  IF r.exc # "" THEN [r EXCEPT !.ret = PyBool(FALSE), !.exc = ""] ELSE r

\* the try block of TranscriptStorage.get_transcript; pick is keys[0], the
\* first key of the server's reply to KEYS
get_transcript_try(self, st, video_id, language, pick, fails) ==
    LET n == IF Truthy(language) THEN 1 ELSE 0
        specific == IF Truthy(language)
                    THEN RedisGet(st, _get_storage_key(video_id, language)) ELSE Nil
        default == RedisGet(st, _get_storage_key(video_id, PyNone))
        pattern == STORAGE_PREFIX \o Colon \o video_id \o <<":", "*">>
        keys == RedisKeys(st, pattern)
        any == RedisGet(st, pick)
    IN  IF Truthy(language) /\ "get_lang" \in fails
        THEN Out(PyNone, "ConnectionError", st, 1, {"get_lang"})
        ELSE IF ReplyTruthy(specific) THEN Out(ReplyStr(specific), "", st, 1, {})
        ELSE IF "get_default" \in fails
        THEN Out(PyNone, "ConnectionError", st, n + 1, {"get_default"})
        ELSE IF ReplyTruthy(default) THEN Out(ReplyStr(default), "", st, n + 1, {})
        ELSE IF "keys" \in fails THEN Out(PyNone, "ConnectionError", st, n + 2, {"keys"})
        ELSE IF keys = {} THEN Out(PyNone, "", st, n + 2, {})
        ELSE IF "get_any" \in fails
        THEN Out(PyNone, "ConnectionError", st, n + 3, {"get_any"})
        ELSE IF ReplyTruthy(any) THEN Out(ReplyStr(any), "", st, n + 3, {})
        ELSE Out(PyNone, "", st, n + 3, {})

\* the keys one of which is keys[0] in get_transcript
FirstKeys(st, video_id) ==
    LET keys == RedisKeys(st, STORAGE_PREFIX \o Colon \o video_id \o <<":", "*">>)
    IN  IF keys = {} THEN {<<>>} ELSE keys

\* TranscriptStorage.get_transcript without its `except Exception` handler
storage_get_transcript_unprotected(self, st, video_id, language, pick, fails) ==
    IF ~self.enabled THEN Out(PyNone, "", st, 0, {})
    ELSE get_transcript_try(self, st, video_id, language, pick, fails)

\* TranscriptStorage.get_transcript(video_id, language)
storage_get_transcript(self, st, video_id, language, pick, fails) ==
    IF ~self.enabled THEN Out(PyNone, "", st, 0, {})
    ELSE LET r == get_transcript_try(self, st, video_id, language, pick, fails)
         IN  IF r.exc # "" THEN [r EXCEPT !.ret = PyNone, !.exc = ""] ELSE r

RECURSIVE StrReplace(_, _)
\* s.replace(old, ""), old not empty
StrReplace(s, old) ==
    IF Len(s) < Len(old) THEN s
    ELSE IF SubSeq(s, 1, Len(old)) = old
    THEN StrReplace(SubSeq(s, Len(old) + 1, Len(s)), old)
    ELSE <<s[1]>> \o StrReplace(Tail(s), old)

\* the orders in which the server may list a set of keys
Orders(keys) ==
    {q \in [1..Cardinality(keys) -> keys] : \A i, j \in DOMAIN q : q[i] = q[j] => i = j}

RECURSIVE ListVideos(_, _, _, _)
\* the loop of list_stored_videos, lines 185-191: [exc, videos, calls, errs]
ListVideos(self, st, keys, fail) ==
    IF Len(keys) = 0 THEN [exc |-> "", videos |-> <<>>, calls |-> 0, errs |-> {}]
    ELSE LET video_id == StrReplace(keys[1], METADATA_PREFIX \o Colon)
             m == storage_get_metadata(self, st, video_id, fail)
             rest == ListVideos(self, st, Tail(keys), fail)
         IN  IF ~Truthy(m.ret)
             THEN [rest EXCEPT !.calls = @ + m.calls, !.errs = @ \cup m.errs]
             ELSE IF m.ret.ty # "dict"
             THEN [exc |-> "TypeError", videos |-> <<>>, calls |-> m.calls, errs |-> m.errs]
             ELSE [rest EXCEPT !.videos = <<DictSet(m.ret, PyStr(S_video_id),
                                                    PyStr(video_id))>> \o @,
                               !.calls = @ + m.calls, !.errs = @ \cup m.errs]

\* the try block of TranscriptStorage.list_stored_videos; order is the
\* server's reply to KEYS
list_stored_videos_try(self, st, limit, order, fails) ==
    IF "keys" \in fails THEN Out(PyNone, "ConnectionError", st, 1, {"keys"})
    ELSE LET keys == SubSeq(order, 1, IF limit < Len(order) THEN limit ELSE Len(order))
             l == ListVideos(self, st, keys, "get_meta" \in fails)
         IN  IF l.exc # "" THEN Out(PyNone, l.exc, st, 1 + l.calls, l.errs)
             ELSE Out(PyList(l.videos), "", st, 1 + l.calls, l.errs)

\* TranscriptStorage.list_stored_videos(limit)
storage_list_stored_videos(self, st, limit, order, fails) ==
    IF ~self.enabled THEN Out(PyList(<<>>), "", st, 0, {})
    ELSE LET r == list_stored_videos_try(self, st, limit, order, fails)
         IN  IF r.exc # "" THEN [r EXCEPT !.ret = PyList(<<>>), !.exc = ""] ELSE r

\* the pattern delete_transcript scans with when no language is given
DeletePattern_scoped(video_id) == STORAGE_PREFIX \o Colon \o video_id \o <<":", "*">>
DeletePattern(video_id) == STORAGE_PREFIX \o Colon \o video_id \o <<"*">>

\* delete_transcript that takes its delete-everything branch for every language
delete_transcript_try_all(self, st, video_id, language, fails) ==
    IF "keys" \in fails THEN Out(PyNone, "ConnectionError", st, 1, {"keys"})
    ELSE LET keys == RedisKeys(st, DeletePattern(video_id))
         IN  Out(PyBool(TRUE), "", RedisDel(RedisDel(st, keys), {_get_metadata_key(video_id)}),
                 2, {})

\* the try block of TranscriptStorage.delete_transcript
delete_transcript_try(self, st, video_id, language, fails) ==
    IF Truthy(language)
    THEN IF "delete_lang" \in fails
         THEN Out(PyNone, "ConnectionError", st, 1, {"delete_lang"})
         ELSE Out(PyBool(TRUE), "", RedisDel(st, {_get_storage_key(video_id, language)}), 1, {})
    ELSE IF "keys" \in fails THEN Out(PyNone, "ConnectionError", st, 1, {"keys"})
    ELSE LET keys == RedisKeys(st, DeletePattern(video_id))
             n == IF keys # {} THEN 2 ELSE 1
             st1 == RedisDel(st, keys)
         IN  IF keys # {} /\ "delete_keys" \in fails
             THEN Out(PyNone, "ConnectionError", st, 2, {"delete_keys"})
             ELSE IF "delete_meta" \in fails
             THEN Out(PyNone, "ConnectionError", st1, n + 1, {"delete_meta"})
             ELSE Out(PyBool(TRUE), "", RedisDel(st1, {_get_metadata_key(video_id)}),
                      n + 1, {})

\* TranscriptStorage.delete_transcript(video_id, language)
storage_delete_transcript(self, st, video_id, language, fails) ==
    IF ~self.enabled THEN Out(PyBool(FALSE), "", st, 0, {})
    ELSE LET r == delete_transcript_try(self, st, video_id, language, fails)
         IN  IF r.exc # "" THEN [r EXCEPT !.ret = PyBool(FALSE), !.exc = ""] ELSE r

\* the try block of TranscriptStorage.get_storage_stats
get_storage_stats_try(self, st, fails) ==
    IF "keys_t" \in fails THEN Out(PyNone, "ConnectionError", st, 1, {"keys_t"})
    ELSE IF "keys_m" \in fails THEN Out(PyNone, "ConnectionError", st, 2, {"keys_m"})
    ELSE LET transcript_keys == RedisKeys(st, STORAGE_PREFIX \o <<":", "*">>)
             metadata_keys == RedisKeys(st, METADATA_PREFIX \o <<":", "*">>)
         IN  Out(PyDict(<<PyItem(PyStr(S_enabled), PyBool(TRUE)),
                          PyItem(PyStr(S_total_transcripts),
                                 PyInt(Digits(Cardinality(transcript_keys)))),
                          PyItem(PyStr(S_total_videos),
                                 PyInt(Digits(Cardinality(metadata_keys))))>>),
                 "", st, 2, {})

\* TranscriptStorage.get_storage_stats()
storage_get_storage_stats(self, st, fails) ==
    IF ~self.enabled
    THEN Out(PyDict(<<PyItem(PyStr(S_enabled), PyBool(FALSE))>>), "", st, 0, {})
    ELSE LET r == get_storage_stats_try(self, st, fails)
         IN  IF r.exc # ""
             THEN [r EXCEPT !.exc = "",
                            !.ret = PyDict(<<PyItem(PyStr(S_enabled), PyBool(TRUE)),
                                             PyItem(PyStr(S_error),
                                                    PyStr(S_ConnectionError))>>)]
             ELSE r

(***************************************************************************)
(* cached(prefix, ttl).  f is a decorated function [name, prefix, ttl,     *)
(* is_async], a its call [args, kwargs], o what the underlying function    *)
(* does when it is invoked: [ret, exc].                                    *)
(***************************************************************************)
\* cache_key = cache._generate_key(prefix, *args, **kwargs)
CallKey(f, a) == _generate_key(f.prefix, a.args, a.kwargs)

\* the wrapper up to `result = func(*args, **kwargs)`: the lookup
wrapper_lookup(cache, st, key, fail) == cache_get(cache, st, key, fail)

\* the wrapper returning whatever the lookup gave, None included
IsHit_unchecked(g) == g.exc = ""

\* `if cached_value is not None`
IsHit(g) == g.exc = "" /\ g.ret # PyNone

\* the wrapper storing in a `finally:` clause, whatever func did
wrapper_store_finally(cache, st, key, f, o, fail) ==
    LET s == cache_set(cache, st, key, o.ret, f.ttl, fail, "cached")
    IN  IF o.exc # "" THEN [s EXCEPT !.ret = PyNone, !.exc = o.exc]
        ELSE IF s.exc # "" THEN [s EXCEPT !.ret = PyNone] ELSE [s EXCEPT !.ret = o.ret]

\* the wrapper from the return of func on: o is func's outcome
wrapper_store(cache, st, key, f, o, fail) ==
    IF o.exc # "" THEN Out(PyNone, o.exc, st, 0, {})
    ELSE LET s == cache_set(cache, st, key, o.ret, f.ttl, fail, "cached")
         IN  IF s.exc # "" THEN [s EXCEPT !.ret = PyNone] ELSE [s EXCEPT !.ret = o.ret]

(***************************************************************************)
(* The identifier parser, utils/url_parser.py.  urlparse and parse_qs are  *)
(* those of Python's urllib.parse, modelled on strings without whitespace, *)
(* control characters, `%` and `+` (the inputs of the specifications have  *)
(* none).                                                                  *)
(***************************************************************************)
\* s.find(c) + 1: the position of the first c in s, 0 when there is none
IndexOf(s, c) ==
    IF \E i \in 1..Len(s) : s[i] = c
    THEN CHOOSE i \in 1..Len(s) : s[i] = c /\ \A j \in 1..(i - 1) : s[j] # c
    ELSE 0

\* s.partition(c)[0], which is s.split(c)[0]
Before(s, c) == IF IndexOf(s, c) = 0 THEN s ELSE SubSeq(s, 1, IndexOf(s, c) - 1)

\* s.partition(c)[2]
After(s, c) == IF IndexOf(s, c) = 0 THEN <<>> ELSE SubSeq(s, IndexOf(s, c) + 1, Len(s))

RECURSIVE Split(_, _)
\* s.split(c)
Split(s, c) == IF IndexOf(s, c) = 0 THEN <<s>> ELSE <<Before(s, c)>> \o Split(After(s, c), c)

IsUpper(c) == Ord(c) \in 65..90
IsAsciiAlpha(c) == IsUpper(c) \/ Ord(c) \in 97..122
IsDigit(c) == Ord(c) \in 48..57

\* c.isalnum(), for an ASCII character
isalnum(c) == IsAsciiAlpha(c) \/ IsDigit(c)

\* s.lower()
Lower(s) == [i \in 1..Len(s) |-> IF IsUpper(s[i]) THEN ASCII[Ord(s[i]) + 1] ELSE s[i]]

\* urllib.parse.scheme_chars
IsSchemeChar(c) == isalnum(c) \/ c \in {"+", "-", "."}

\* s.rpartition(c)[2]: what follows the last c in s, s when there is none
AfterLast(s, c) ==
    IF \E i \in 1..Len(s) : s[i] = c
    THEN SubSeq(s, (CHOOSE i \in 1..Len(s) : s[i] = c /\ \A j \in (i + 1)..Len(s) : s[j] # c) + 1,
                Len(s))
    ELSE s

\* the position of the `;` that starts the params of a path (_splitparams:
\* the first `;` of the last segment), 0 when there is none
ParamsAt(path) ==
    LET slashes == {j \in 1..Len(path) : path[j] = "/"}
        from == IF slashes = {} THEN 0 ELSE CHOOSE j \in slashes : \A k \in slashes : k <= j
        semis == {j \in (from + 1)..Len(path) : path[j] = ";"}
    IN  IF semis = {} THEN 0 ELSE CHOOSE j \in semis : \A k \in semis : j <= k

\* the host between the brackets of a netloc is an IPv6 address: here, a
\* string of hex digits, `:` and `.` with a `:` in it (ipaddress.ip_address
\* is stricter; the inputs have `::1` and names)
IsBracketedHost(h) ==
    /\ \A i \in 1..Len(h) : IsDigit(h[i]) \/ h[i] \in {":", ".", "a", "b", "c", "d", "e", "f",
                                                       "A", "B", "C", "D", "E", "F"}
    /\ \E i \in 1..Len(h) : h[i] = ":"

\* F applied to the value of v: v is evaluated once, whatever F does with it
With(v, F(_)) == CHOOSE r \in {F(x) : x \in {v}} : TRUE

\* urlsplit from the netloc on: u1 is the url without its scheme
urlparse_netloc(scheme, u1) ==
    LET has_netloc == StartsWith(u1, <<"/", "/">>)
        rest == SubSeq(u1, 3, Len(u1))
        ends == {j \in 1..Len(rest) : rest[j] \in {"/", "?", "#"}}
        delim == IF ends = {} THEN Len(rest) + 1
                 ELSE CHOOSE j \in ends : \A k \in ends : j <= k
    IN  With(IF has_netloc THEN SubSeq(rest, 1, delim - 1) ELSE <<>>, LAMBDA netloc :
        With(IF has_netloc THEN SubSeq(rest, delim, Len(rest)) ELSE u1, LAMBDA u2 :
        With(Before(u2, "#"), LAMBDA u3 :
        With(Before(u3, "?"), LAMBDA u4 :
        With(ParamsAt(u4), LAMBDA semi :
        With(Before(After(AfterLast(netloc, "@"), "["), "]"), LAMBDA bracketed :
            LET open == IndexOf(netloc, "[") > 0
                close == IndexOf(netloc, "]") > 0
            IN  [exc |-> IF open # close \/ (open /\ ~IsBracketedHost(bracketed))
                         THEN "ValueError" ELSE "",
                 scheme |-> scheme,
                 netloc |-> netloc,
                 path |-> IF semi = 0 THEN u4 ELSE SubSeq(u4, 1, semi - 1),
                 params |-> IF semi = 0 THEN <<>> ELSE SubSeq(u4, semi + 1, Len(u4)),
                 query |-> After(u3, "?"),
                 fragment |-> After(u2, "#")]))))))

\* urllib.parse.urlparse(url): [scheme, netloc, path, params, query, fragment],
\* and in exc the ValueError it raises for a netloc with a stray bracket or
\* with a bracketed host that is no address
urlparse(url) ==
    With(IndexOf(url, ":"), LAMBDA i :
        IF i > 1 /\ IsAsciiAlpha(url[1]) /\ \A j \in 1..(i - 1) : IsSchemeChar(url[j])
        THEN With(SubSeq(url, i + 1, Len(url)), LAMBDA u1 :
                 urlparse_netloc(Lower(SubSeq(url, 1, i - 1)), u1))
        ELSE urlparse_netloc(<<>>, url))

\* ParseResult.hostname: the host of the netloc (what follows the last `@`)
\* in lower case, without the port; the empty string stands for None
hostname_of(parsed_url) ==
    With(AfterLast(parsed_url.netloc, "@"), LAMBDA hostinfo :
        IF IndexOf(hostinfo, "[") > 0 THEN Lower(Before(After(hostinfo, "["), "]"))
        ELSE Lower(Before(hostinfo, ":")))

RECURSIVE FirstValue(_, _)
\* parse_qs(query).get(name, [None])[0]: the value of the first field
\* `name=value` of the query whose value is not blank, None when there is
\* none (blank values are dropped, a field without `=` is skipped)
FirstValue(fields, name) ==
    IF Len(fields) = 0 THEN PyNone
    ELSE IF /\ IndexOf(fields[1], "=") > 0
            /\ Before(fields[1], "=") = name
            /\ Len(After(fields[1], "=")) > 0
    THEN PyStr(After(fields[1], "="))
    ELSE FirstValue(Tail(fields), name)

\* parse_qs(query, keep_blank_values=True).get(name, [None])[0]
parse_qs_get_keep_blank(query, name) ==
    LET named == SelectSeq(Split(query, "&"),
                           LAMBDA f : IndexOf(f, "=") > 0 /\ Before(f, "=") = name)
    IN  IF named = <<>> THEN PyNone ELSE PyStr(After(named[1], "="))
parse_qs_get(query, name) == FirstValue(Split(query, "&"), name)

S_youtube_com == <<"y","o","u","t","u","b","e",".","c","o","m">>
S_youtu_be == <<"y","o","u","t","u",".","b","e">>
S_www == <<"w","w","w",".">>
S_https == <<"h","t","t","p","s",":","/","/">>
S_watch == <<"/","w","a","t","c","h">>

\* the result of get_youtube_video_id: the value returned or the exception
\* raised, and whether the input went through urlparse
Parsed(ret, as_url) == [ret |-> ret, exc |-> "", as_url |-> as_url]

\* line 35: 11 characters, each alphanumeric or `-` or `_`
IsDirectId_never(url_or_id) == FALSE
IsDirectId(url_or_id) ==
    Len(url_or_id) = 11
    /\ \A i \in 1..Len(url_or_id) : isalnum(url_or_id[i]) \/ url_or_id[i] \in {"-", "_"}

\* path.split("/")[1]: the segment that names the shape
SecondSegment_shape(path) == Split(path, "/")[2]
\* lines 74-95: path.split("/")[2].split("?")[0]
SecondSegment(path) == Before(Split(path, "/")[3], "?")

\* the short-link branch taken for every host
extract_video_id_any_host(parsed_url, hostname) ==
    PyStr(Before(Before(SubSeq(parsed_url.path, 2, Len(parsed_url.path)), "?"), "&"))
\* lines 53-95 and 101-102: the branches on the host and the path
extract_video_id(parsed_url, hostname) ==
    IF hostname \in {S_youtu_be, S_www \o S_youtu_be}
    THEN PyStr(Before(Before(SubSeq(parsed_url.path, 2, Len(parsed_url.path)), "?"), "&"))
    ELSE IF hostname \in {S_www \o S_youtube_com, S_youtube_com,
                          <<"m", ".">> \o S_youtube_com,
                          <<"m","u","s","i","c",".">> \o S_youtube_com}
    THEN IF parsed_url.path = S_watch \/ StartsWith(parsed_url.path, S_watch \o <<"?">>)
         THEN parse_qs_get(parsed_url.query, <<"v">>)
         ELSE IF \E seg \in {<<"e","m","b","e","d">>, <<"v">>, <<"s","h","o","r","t","s">>,
                             <<"l","i","v","e">>} :
                    StartsWith(parsed_url.path, <<"/">> \o seg \o <<"/">>)
         THEN PyStr(SecondSegment(parsed_url.path))
         ELSE PyNone
    ELSE PyNone

\* lines 41-95 and 101-102 of get_youtube_video_id: the try block and what
\* follows it
get_youtube_video_id_try(url_or_id) ==
    With(urlparse(url_or_id), LAMBDA parsed_url :
    With(hostname_of(parsed_url), LAMBDA hostname :
        IF parsed_url.exc # "" THEN [Parsed(PyNone, TRUE) EXCEPT !.exc = parsed_url.exc]
        ELSE IF Len(hostname) = 0
        THEN IF IsSubstring(S_youtube_com, url_or_id) \/ IsSubstring(S_youtu_be, url_or_id)
             THEN With(urlparse(S_https \o url_or_id), LAMBDA again :
                      IF again.exc # "" THEN [Parsed(PyNone, TRUE) EXCEPT !.exc = again.exc]
                      ELSE With(hostname_of(again), LAMBDA host_again :
                               Parsed(extract_video_id(again, host_again), TRUE)))
             ELSE Parsed(PyNone, TRUE)
        ELSE Parsed(extract_video_id(parsed_url, hostname), TRUE)))

\* get_youtube_video_id without its `except Exception` handler
get_youtube_video_id_unprotected(url_or_id) ==
    IF IsDirectId(url_or_id) THEN Parsed(PyStr(url_or_id), FALSE)
    ELSE get_youtube_video_id_try(url_or_id)

\* get_youtube_video_id(url_or_id)
get_youtube_video_id(url_or_id) ==
    IF IsDirectId(url_or_id) THEN Parsed(PyStr(url_or_id), FALSE)
    ELSE With(get_youtube_video_id_try(url_or_id), LAMBDA r :
             IF r.exc # "" THEN Parsed(PyNone, TRUE) ELSE r)

(***************************************************************************)
(* The transcript fetcher's choice of language, services/transcript.py.    *)
(* available_languages is the list of language codes api.list(video_id)    *)
(* gave, languages the caller's preferred list or None.  The result is the *)
(* language passed to api.fetch, or the exception raised before the fetch. *)
(***************************************************************************)
S_en == <<"e","n">>

\* the language api.fetch is called with
Fetch(lang) == [lang |-> lang, exc |-> ""]

\* a fallback that prefers English to the first available language when no
\* preferred language is available
_get_transcript_with_fallback_english(available_languages, languages) ==
    LET found == {i \in 1..Len(languages.items) :
                     ListHas(available_languages, languages.items[i])}
    IN  IF Truthy(languages) /\ found # {}
        THEN Fetch(languages.items[CHOOSE i \in found : \A j \in found : i <= j])
        ELSE IF ListHas(available_languages, PyStr(S_en)) THEN Fetch(PyStr(S_en))
        ELSE IF Len(available_languages.items) = 0 THEN [lang |-> PyNone, exc |-> "IndexError"]
        ELSE Fetch(available_languages.items[1])
\* TranscriptService._get_transcript_with_fallback, lines 74-85
_get_transcript_with_fallback(available_languages, languages) ==
    LET found == {i \in 1..Len(languages.items) :
                     ListHas(available_languages, languages.items[i])}
    IN  IF Truthy(languages)
        THEN IF found # {}
             THEN Fetch(languages.items[CHOOSE i \in found : \A j \in found : i <= j])
             ELSE IF Len(available_languages.items) = 0
                  THEN [lang |-> PyNone, exc |-> "IndexError"]
                  ELSE Fetch(available_languages.items[1])
        ELSE IF ListHas(available_languages, PyStr(S_en)) THEN Fetch(PyStr(S_en))
        ELSE IF Len(available_languages.items) = 0
             THEN [lang |-> PyNone, exc |-> "IndexError"]
             ELSE Fetch(available_languages.items[1])

\* the text api.fetch gives for the transcript in a language
captions_in(lang) == lang.text \o <<":","h","i">>

\* routers/storage.py save_transcript, lines 58-72 ("Determine language
\* used"): `languages` is what get_available_languages returned, reduced to
\* its language codes, body_languages the preferred list of the request
used_language(languages, body_languages) ==
    LET found == {i \in 1..Len(body_languages.items) :
                     ListHas(languages, body_languages.items[i])}
    IN  IF ~Truthy(languages) THEN PyNone
        ELSE IF Truthy(body_languages) /\ found # {}
        THEN body_languages.items[CHOOSE i \in found : \A j \in found : i <= j]
        ELSE languages.items[1]

(***************************************************************************)
(* History.  `last` records the operation that completed last: its name,   *)
(* the key (or video id) it was about, its argument, what it returned or   *)
(* raised, how often and with what outcome the underlying function ran,    *)
(* the Redis commands it issued and those that raised, whether it ran      *)
(* without another operation in between (solo), and whether no tick has    *)
(* passed since (fresh).  `prev` says of the operation completed just      *)
(* before it, when that one was about the same key and no tick passed in   *)
(* between: its name, its argument, whether it ran solo and without a      *)
(* failing command (clean), whether it raised, and whether it ran the      *)
(* underlying function.  `seq` flips at every completion.  A specification *)
(* that needs neither `prev` nor `seq` starts with `track` off.            *)
(***************************************************************************)
NoOutcome == [ret |-> PyNone, exc |-> ""]
NoPrev == [op |-> "", arg |-> PyNone, clean |-> FALSE, raised |-> FALSE, invoked |-> FALSE]
Start == [track |-> TRUE, seq |-> 0, op |-> "", key |-> <<>>, arg |-> PyNone, ret |-> PyNone, exc |-> "",
          invocations |-> 0, func |-> NoOutcome, calls |-> 0, errs |-> {},
          solo |-> TRUE, fresh |-> FALSE, prev |-> NoPrev]

PrevOf(key) ==
    IF last.track /\ last.op # "" /\ last.key = key /\ last.fresh
    THEN [op |-> last.op, arg |-> last.arg, clean |-> (last.errs = {} /\ last.solo),
          raised |-> (last.exc # ""), invoked |-> (last.invocations > 0)]
    ELSE NoPrev

Record(op, key, arg, r, invocations, func, solo) ==
    [track |-> last.track, seq |-> IF last.track THEN 1 - last.seq ELSE 0, op |-> op, key |-> key, arg |-> arg, ret |-> r.ret,
     exc |-> r.exc, invocations |-> invocations, func |-> func, calls |-> r.calls,
     errs |-> r.errs, solo |-> solo, fresh |-> TRUE, prev |-> PrevOf(key)]

NoCall == [args |-> <<>>, kwargs |-> <<>>]
NoFunc == [name |-> "", prefix |-> <<>>, ttl |-> 0, is_async |-> FALSE]
Idle == [pc |-> "idle", f |-> NoFunc, a |-> NoCall, calls |-> 0, errs |-> {}, mixed |-> FALSE]

\* a server process that has not called save_transcript
NotSaving ==
    [pc |-> "idle", video_id |-> <<>>, language |-> PyNone, metadata |-> PyNone,
     existing_metadata |-> PyNone, stale |-> FALSE, ret |-> PyNone]

\* a completed operation is seen by every suspended call
Disturb(p) ==
    [t \in DOMAIN p |-> IF p[t].pc = "awaiting" THEN [p[t] EXCEPT !.mixed = TRUE] ELSE p[t]]

\* the state after an operation that went through get_cache()
Commit(cache, st, rec, p) ==
    /\ cache_instance' = TRUE
    /\ enabled' = cache.enabled
    /\ cache_ttl' = cache.cache_ttl
    /\ store' = st
    /\ last' = rec
    /\ pending' = p
    /\ saving' = saving
    /\ probe' = probe

\* the state after an operation that went through get_storage()
CommitStorage(storage, st, rec, sup) ==
    /\ cache_instance' = TRUE
    /\ enabled' = storage.cache.enabled
    /\ cache_ttl' = storage.cache.cache_ttl
    /\ storage_instance' = TRUE
    /\ storage_enabled' = storage.enabled
    /\ store' = st
    /\ last' = rec
    /\ pending' = Disturb(pending)
    /\ saving' = saving
    /\ probe' = probe
    /\ supplied' = sup

\* what the saves of one video id have supplied since its record was last
\* absent: the attributes with their latest values and the languages; valid
\* as long as every save since then succeeded and nothing was deleted
NoSupplied == [valid |-> TRUE, attrs |-> EmptyDict, langs |-> {}]
Invalid == [valid |-> FALSE, attrs |-> EmptyDict, langs |-> {}]

AfterSave(sup, r, language, metadata) ==
    IF r.calls = 0 THEN sup
    ELSE IF r.ret # PyBool(TRUE) \/ ~sup.valid THEN Invalid
    ELSE [valid |-> TRUE,
          attrs |-> IF Truthy(metadata) THEN DictUpdate(sup.attrs, metadata) ELSE sup.attrs,
          langs |-> IF Truthy(language) THEN sup.langs \cup {language.text} ELSE sup.langs]

AfterDelete(sup, r, language) ==
    IF r.calls = 0 THEN sup
    ELSE IF r.ret = PyBool(TRUE) /\ ~Truthy(language) THEN NoSupplied
    ELSE Invalid

\* the connection test of RedisCache.__init__ runs when the instance is built
Pings(U) == IF cache_instance THEN {TRUE} ELSE U.pings

(***************************************************************************)
(* Initial state: nothing constructed, an empty key space.  U is the       *)
(* universe the inputs of a specification are drawn from.                  *)
(***************************************************************************)
InitProgram(U) ==
    /\ settings \in U.cfgs
    /\ cache_instance = FALSE
    /\ enabled = FALSE
    /\ cache_ttl = 0
    /\ storage_instance = FALSE
    /\ storage_enabled = FALSE
    /\ store = <<>>
    /\ now = 0
    /\ pending = [t \in U.tasks |-> Idle]
    /\ saving = [w \in U.savers |-> NotSaving]
    /\ supplied = [id \in U.ids |-> NoSupplied]
    /\ last = [Start EXCEPT !.track = U.track]

\* no pure function is under examination
NoProbe == [done |-> FALSE, calls |-> <<>>, results |-> <<>>]

InitOf(U) == InitProgram(U) /\ probe = NoProbe

\* the program at rest during the examination of a pure function
UnchangedByProbe ==
    UNCHANGED <<settings, cache_instance, enabled, cache_ttl, storage_instance,
                storage_enabled, store, now, pending, saving, supplied, last>>

(***************************************************************************)
(* Time.  One tick is TickSeconds: every entry whose TTL is at most that   *)
(* has expired when the tick is over.  The other TTL of the program,       *)
(* STORAGE_TTL, outlasts MaxTicks ticks.                                   *)
(***************************************************************************)
Tick ==
    /\ now < MaxTicks
    /\ now' = now + 1
    /\ store' = [k \in {x \in DOMAIN store : store[x].ttl > TickSeconds} |-> store[k]]
    /\ last' = [last EXCEPT !.fresh = FALSE]
    /\ UNCHANGED <<settings, cache_instance, enabled, cache_ttl, storage_instance,
                   storage_enabled, pending, saving, probe, supplied>>

(***************************************************************************)
(* The memoized functions.                                                 *)
(***************************************************************************)
\* a wrapper that invokes func a second time before it stores the result
wrapper_body_twice(cache, st, key, f, o, gfail, sfail) ==
    LET g == wrapper_lookup(cache, st, key, gfail)
        s == wrapper_store(cache, g.st, key, f, o, sfail)
    IN  IF g.exc # "" \/ IsHit(g) THEN [r |-> g, n |-> 0, func |-> NoOutcome]
        ELSE [r |-> [s EXCEPT !.calls = g.calls + s.calls, !.errs = g.errs \cup s.errs],
              n |-> 2, func |-> o]

\* the whole of a wrapper's body, given what func does when it is invoked:
\* the result with the number of times func ran (n) and its outcome (func)
wrapper_body(cache, st, key, f, o, gfail, sfail) ==
    LET g == wrapper_lookup(cache, st, key, gfail)
        s == wrapper_store(cache, g.st, key, f, o, sfail)
    IN  IF g.exc # "" \/ IsHit(g) THEN [r |-> g, n |-> 0, func |-> NoOutcome]
        ELSE [r |-> [s EXCEPT !.calls = g.calls + s.calls, !.errs = g.errs \cup s.errs],
              n |-> 1, func |-> o]

\* sync_wrapper(*args, **kwargs), lines 187-197
sync_wrapper(U) ==
    \E f \in U.funcs, a \in U.calls, o \in U.outcomes, ping \in Pings(U),
       gfail \in U.fail, sfail \in U.fail :
        /\ ~f.is_async
        /\ \E cache \in {get_cache(ping)}, key \in {CallKey(f, a)} :
           \E w \in {wrapper_body(cache, store, key, f, o, gfail, sfail)} :
               Commit(cache, w.r.st, Record("call", key, PyNone, w.r, w.n, w.func, TRUE),
                      Disturb(pending))
        /\ UNCHANGED <<settings, storage_instance, storage_enabled, now, supplied>>

\* async_wrapper(*args, **kwargs), lines 174-182: up to a hit, or to the
\* suspension in `await func(*args, **kwargs)`
async_begin(U) ==
    \E t \in U.tasks, f \in U.funcs, a \in U.calls, ping \in Pings(U), gfail \in U.fail :
        /\ f.is_async
        /\ pending[t].pc = "idle"
        /\ \E cache \in {get_cache(ping)}, key \in {CallKey(f, a)} :
           \E g \in {wrapper_lookup(cache, store, key, gfail)} :
               IF g.exc # "" \/ IsHit(g)
               THEN Commit(cache, g.st, Record("call", key, PyNone, g, 0, NoOutcome, TRUE),
                           Disturb(pending))
               ELSE Commit(cache, g.st, last,
                           [pending EXCEPT ![t] = [pc |-> "awaiting", f |-> f, a |-> a,
                                                   calls |-> g.calls, errs |-> g.errs,
                                                   mixed |-> FALSE]])
        /\ UNCHANGED <<settings, storage_instance, storage_enabled, now, supplied>>

\* an async_wrapper that returns what func gave without storing it
async_resume_unstored(U) ==
    \E t \in U.tasks, o \in U.outcomes, sfail \in U.fail :
        /\ pending[t].pc = "awaiting"
        /\ \E cache \in {get_cache(TRUE)},
              key \in {CallKey(pending[t].f, pending[t].a)} :
           \E r \in {Out(o.ret, o.exc, store, pending[t].calls, pending[t].errs)} :
               Commit(cache, r.st, Record("call", key, PyNone, r, 1, o, ~pending[t].mixed),
                      Disturb([pending EXCEPT ![t] = Idle]))
        /\ UNCHANGED <<settings, storage_instance, storage_enabled, now, supplied>>

\* an async_wrapper that keeps the entry another call stored meanwhile
async_resume_first_wins(U) ==
    \E t \in U.tasks, o \in U.outcomes, sfail \in U.fail :
        /\ pending[t].pc = "awaiting"
        /\ \E cache \in {get_cache(TRUE)},
              key \in {CallKey(pending[t].f, pending[t].a)} :
           \E s \in {IF key \in DOMAIN store THEN Out(o.ret, o.exc, store, 0, {})
                      ELSE wrapper_store(cache, store, key, pending[t].f, o, sfail)} :
           \E r \in {[s EXCEPT !.calls = pending[t].calls + s.calls,
                               !.errs = pending[t].errs \cup s.errs]} :
               Commit(cache, r.st, Record("call", key, PyNone, r, 1, o, ~pending[t].mixed),
                      Disturb([pending EXCEPT ![t] = Idle]))
        /\ UNCHANGED <<settings, storage_instance, storage_enabled, now, supplied>>

\* async_wrapper, lines 182-184: func has answered; store and return
async_resume(U) ==
    \E t \in U.tasks, o \in U.outcomes, sfail \in U.fail :
        /\ pending[t].pc = "awaiting"
        /\ \E cache \in {get_cache(TRUE)},
              key \in {CallKey(pending[t].f, pending[t].a)} :
           \E s \in {wrapper_store(cache, store, key, pending[t].f, o, sfail)} :
           \E r \in {[s EXCEPT !.calls = pending[t].calls + s.calls,
                               !.errs = pending[t].errs \cup s.errs]} :
               Commit(cache, r.st, Record("call", key, PyNone, r, 1, o, ~pending[t].mixed),
                      Disturb([pending EXCEPT ![t] = Idle]))
        /\ UNCHANGED <<settings, storage_instance, storage_enabled, now, supplied>>

(***************************************************************************)
(* The Cache Layer called directly.                                        *)
(***************************************************************************)
CacheGet(U) ==
    \E key \in U.keys, ping \in Pings(U), fail \in U.fail :
        /\ \E cache \in {get_cache(ping)} :
           \E r \in {cache_get(cache, store, key, fail)} :
               Commit(cache, r.st, Record("get", key, PyNone, r, 0, NoOutcome, TRUE),
                      Disturb(pending))
        /\ UNCHANGED <<settings, storage_instance, storage_enabled, now, supplied>>

CacheSet(U) ==
    \E key \in U.keys, value \in U.values, ttl \in U.ttls, ping \in Pings(U), fail \in U.fail :
        /\ \E cache \in {get_cache(ping)} :
           \E r \in {cache_set(cache, store, key, value, ttl, fail, "set")} :
               Commit(cache, r.st, Record("set", key, value, r, 0, NoOutcome, TRUE),
                      Disturb(pending))
        /\ UNCHANGED <<settings, storage_instance, storage_enabled, now, supplied>>

CacheDelete(U) ==
    \E key \in U.keys, ping \in Pings(U), fail \in U.fail :
        /\ \E cache \in {get_cache(ping)} :
           \E r \in {cache_delete(cache, store, key, fail)} :
               Commit(cache, r.st, Record("delete", key, PyNone, r, 0, NoOutcome, TRUE),
                      Disturb(pending))
        /\ UNCHANGED <<settings, storage_instance, storage_enabled, now, supplied>>

CacheClearAll(U) ==
    \E ping \in Pings(U), fails \in SUBSET ({"keys", "delete"} \cap U.sites) :
        /\ \E cache \in {get_cache(ping)} :
           \E r \in {cache_clear_all(cache, store, fails)} :
               Commit(cache, r.st, Record("clear_all", <<>>, PyNone, r, 0, NoOutcome, TRUE),
                      Disturb(pending))
        /\ UNCHANGED <<settings, storage_instance, storage_enabled, now, supplied>>

CacheGetStats(U) ==
    \E ping \in Pings(U), info \in U.infos, fails \in SUBSET ({"info", "keys"} \cap U.sites) :
        /\ \E cache \in {get_cache(ping)} :
           \E r \in {cache_get_stats(cache, store, info, fails)} :
               Commit(cache, r.st, Record("get_stats", <<>>, PyNone, r, 0, NoOutcome, TRUE),
                      Disturb(pending))
        /\ UNCHANGED <<settings, storage_instance, storage_enabled, now, supplied>>

(***************************************************************************)
(* The Storage Layer.                                                      *)
(***************************************************************************)
SaveTranscript(U) ==
    \E video_id \in U.ids, transcript \in U.texts, language \in U.langs,
       metadata \in U.metas, ping \in Pings(U),
       fails \in SUBSET ({"setex_t", "get_meta", "setex_m"} \cap U.sites) :
        /\ \E storage \in {get_storage(ping)} :
           \E r \in {storage_save_transcript(storage, store, video_id, transcript,
                                             language, metadata, now, fails)} :
               CommitStorage(storage, r.st,
                   Record("save", video_id, PyTuple(<<PyStr(transcript), language, metadata>>),
                          r, 0, NoOutcome, TRUE),
                   [supplied EXCEPT ![video_id] = AfterSave(@, r, language, metadata)])
        /\ UNCHANGED <<settings, now>>

GetTranscript(U) ==
    \E video_id \in U.ids, language \in U.langs, ping \in Pings(U),
       fails \in SUBSET ({"get_lang", "get_default", "keys", "get_any"} \cap U.sites) :
        /\ \E storage \in {get_storage(ping)}, pick \in FirstKeys(store, video_id) :
           \E r \in {storage_get_transcript(storage, store, video_id, language, pick, fails)} :
               CommitStorage(storage, r.st,
                   Record("get_transcript", video_id, language, r, 0, NoOutcome, TRUE),
                   supplied)
        /\ UNCHANGED <<settings, now>>

GetMetadata(U) ==
    \E video_id \in U.ids, ping \in Pings(U), fail \in {"get_meta" \in U.sites, FALSE} :
        /\ \E storage \in {get_storage(ping)} :
           \E r \in {storage_get_metadata(storage, store, video_id, fail)} :
               CommitStorage(storage, r.st,
                   Record("get_metadata", video_id, PyNone, r, 0, NoOutcome, TRUE), supplied)
        /\ UNCHANGED <<settings, now>>

ListStoredVideos(U) ==
    \E limit \in U.limits, ping \in Pings(U),
       order \in Orders(RedisKeys(store, METADATA_PREFIX \o <<":", "*">>)),
       fails \in SUBSET ({"keys", "get_meta"} \cap U.sites) :
        /\ \E storage \in {get_storage(ping)} :
           \E r \in {storage_list_stored_videos(storage, store, limit, order, fails)} :
               CommitStorage(storage, r.st,
                   Record("list_stored_videos", <<>>, PyNone, r, 0, NoOutcome, TRUE), supplied)
        /\ UNCHANGED <<settings, now>>

DeleteTranscript(U) ==
    \E video_id \in U.ids, language \in U.langs, ping \in Pings(U),
       fails \in SUBSET ({"delete_lang", "keys", "delete_keys", "delete_meta"} \cap U.sites) :
        /\ \E storage \in {get_storage(ping)} :
           \E r \in {storage_delete_transcript(storage, store, video_id, language, fails)} :
               CommitStorage(storage, r.st,
                   Record("delete_transcript", video_id, language, r, 0, NoOutcome, TRUE),
                   [supplied EXCEPT ![video_id] = AfterDelete(@, r, language)])
        /\ UNCHANGED <<settings, now>>

GetStorageStats(U) ==
    \E ping \in Pings(U), fails \in SUBSET ({"keys_t", "keys_m"} \cap U.sites) :
        /\ \E storage \in {get_storage(ping)} :
           \E r \in {storage_get_storage_stats(storage, store, fails)} :
               CommitStorage(storage, r.st,
                   Record("get_storage_stats", <<>>, PyNone, r, 0, NoOutcome, TRUE), supplied)
        /\ UNCHANGED <<settings, now>>

(***************************************************************************)
(* save_transcript of a server process of its own, Redis command by Redis  *)
(* command.  Several processes serve the API on one Redis; each has a      *)
(* TranscriptStorage of its own, enabled when the backend answered its     *)
(* connection test.  Redis runs one command at a time, and nothing in      *)
(* save_transcript holds the key between its commands (no WATCH/MULTI, no  *)
(* lock).                                                                  *)
(***************************************************************************)
\* the instance of such a process (the processes share their configuration)
SaverStorage == TranscriptStorage_init(RedisCache_init(settings, CACHE_TTL_PARAM, TRUE))

UnchangedBySaver ==
    UNCHANGED <<settings, cache_instance, enabled, cache_ttl, storage_instance,
                storage_enabled, now, pending, probe, supplied, last>>

\* lines 63-64: SETEX of the transcript
save_setex_transcript(U) ==
    \E w \in U.savers, video_id \in U.ids, transcript \in U.texts, language \in U.langs,
       metadata \in U.metas :
        /\ saving[w].pc = "idle"
        /\ store' = RedisSetex(store, _get_storage_key(video_id, language), STORAGE_TTL,
                               RawText(transcript), "transcript")
        /\ saving' = [saving EXCEPT ![w] = [NotSaving EXCEPT !.pc = "stored", !.video_id = video_id,
                                                             !.language = language,
                                                             !.metadata = metadata]]
        /\ UnchangedBySaver

\* line 69: existing_metadata = self.get_metadata(video_id) or {}
save_get_metadata(U) ==
    \E w \in U.savers :
        /\ saving[w].pc = "stored"
        /\ \E m \in {storage_get_metadata(SaverStorage, store, saving[w].video_id, FALSE)} :
             saving' = [saving EXCEPT ![w].pc = "read",
                                      ![w].existing_metadata =
                                          IF Truthy(m.ret) THEN m.ret ELSE EmptyDict]
        /\ store' = store
        /\ UnchangedBySaver

\* lines 72-91: the merge, the timestamps, SETEX of the record and the
\* return; a raise anywhere makes the method return False (lines 92-94).  A
\* process that has read the record of the same video and not yet written
\* it holds a stale copy from now on.
save_setex_metadata(U) ==
    \E w \in U.savers :
        /\ saving[w].pc = "read"
        /\ \E a \in {AddLanguage(saving[w].existing_metadata, saving[w].language)} :
           \E doc \in {json_dumps(MergeAndStamp(a.d, saving[w].metadata, now))} :
             IF a.exc # "" \/ doc = JsonTypeError
             THEN /\ store' = store
                  /\ saving' = [saving EXCEPT ![w].pc = "done", ![w].ret = PyBool(FALSE)]
             ELSE /\ store' = RedisSetex(store, _get_metadata_key(saving[w].video_id),
                                         STORAGE_TTL, doc, "metadata")
                  /\ saving' = [v \in DOMAIN saving |->
                                  IF v = w
                                  THEN [saving[v] EXCEPT !.pc = "done", !.ret = PyBool(TRUE)]
                                  ELSE IF saving[v].pc = "read"
                                          /\ saving[v].video_id = saving[w].video_id
                                  THEN [saving[v] EXCEPT !.stale = TRUE]
                                  ELSE saving[v]]
        /\ UnchangedBySaver

(***************************************************************************)
(* The inputs.                                                             *)
(***************************************************************************)
\* two video ids, as the routers pass them on
VID1 == <<"d","Q","w","4","w","9","W","g","X","c","Q">>
VID2 == <<"9","b","Z","k","p","7","q","1","9","f","0">>
EN == <<"e","n">>
ES == <<"e","s">>

\* main.py:202  @cached(prefix="video_data", ttl=3600) def get_video_data
F_sync == [name |-> "main.get_video_data", prefix |-> <<"v","i","d","e","o","_","d","a","t","a">>, ttl |-> 3600,
           is_async |-> FALSE]
\* services/youtube.py:46  @cached(prefix="video_data", ttl=3600) async def get_video_data
F_async == [name |-> "YouTubeService.get_video_data", prefix |-> <<"v","i","d","e","o","_","d","a","t","a">>, ttl |-> 3600,
            is_async |-> TRUE]

CallOf(url) == [args |-> <<PyStr(url)>>, kwargs |-> <<>>]

\* results of an underlying function: None, dicts, a tuple, a set, a str
R_none == PyNone
R_dict == PyDict(<<PyItem(PyStr(S_title), PyStr(<<"T">>))>>)
R_tuple == PyTuple(<<PyStr(<<"a">>)>>)
R_intkey == PyDict(<<PyItem(PyInt(<<"1">>), PyStr(<<"a">>))>>)
R_set == PySet(<<PyStr(<<"a">>)>>)
R_empty == PyStr(<<>>)
Returns(v) == [ret |-> v, exc |-> ""]
Raises(e) == [ret |-> PyNone, exc |-> e]

DefaultCfg == [redis_url |-> TRUE, cache_ttl_seconds |-> 3600]
NoUrlCfg == [redis_url |-> FALSE, cache_ttl_seconds |-> 3600]

UBase ==
    [cfgs |-> {DefaultCfg}, pings |-> {TRUE}, fail |-> {FALSE}, sites |-> {},
     keys |-> {}, values |-> {}, ttls |-> {0}, funcs |-> {}, calls |-> {},
     outcomes |-> {}, tasks |-> {}, infos |-> {[keyspace_hits |-> 0, keyspace_misses |-> 0]},
     ids |-> {}, langs |-> {}, texts |-> {}, metas |-> {}, limits |-> {100},
     savers |-> {}, track |-> TRUE]

(***************************************************************************)
(* SpecMemo: the memoized functions, with a backend that may be absent,    *)
(* unreachable at start-up, or failing at any command.                     *)
(***************************************************************************)
UMemo ==
    [UBase EXCEPT !.cfgs = {DefaultCfg, NoUrlCfg}, !.pings = BOOLEAN, !.fail = BOOLEAN,
                  !.funcs = {F_sync, F_async},
                  !.calls = {CallOf(VID1), CallOf(VID2)},
                  !.outcomes = {Returns(R_none), Returns(R_tuple), Returns(R_set),
                                Raises("VideoNotFoundError")},
                  !.tasks = {"t1"}]
InitMemo == InitOf(UMemo)
NextMemo ==
    \/ sync_wrapper(UMemo)
    \/ async_begin(UMemo)
    \/ async_resume(UMemo)
SpecMemo == InitMemo /\ [][NextMemo]_vars

(***************************************************************************)
(* SpecRoundTrip: set, get and delete called directly on the keys          *)
(* tests/unit/test_cache.py uses, with values of several Python types, a   *)
(* backend that may fail at any command, and a clock.                      *)
(***************************************************************************)
TEST_KEY1 == <<"y","o","u","t","u","b","e","_","a","p","i",":","t","e","s","t",":","p","y","t","e","s","t">>
TEST_KEY2 == <<"y","o","u","t","u","b","e","_","a","p","i",":","t","e","s","t",":","d","e","l","e","t","e">>
URoundTrip ==
    [UBase EXCEPT !.fail = BOOLEAN, !.keys = {TEST_KEY1, TEST_KEY2},
                  !.values = {R_dict, R_tuple, R_intkey, R_none, R_set},
                  !.ttls = {60}]
InitRoundTrip == InitOf(URoundTrip)
NextRoundTrip ==
    \/ CacheSet(URoundTrip)
    \/ CacheGet(URoundTrip)
    \/ CacheDelete(URoundTrip)
    \/ Tick
SpecRoundTrip == InitRoundTrip /\ [][NextRoundTrip]_vars

\* transcript bodies and the metadata a save supplies (routers/storage.py
\* supplies title, author and thumbnail_url)
TEXT1 == <<"h","i">>
TEXT2 == <<"y","o">>
M_title1 == PyDict(<<PyItem(PyStr(S_title), PyStr(<<"A">>))>>)
M_title2 == PyDict(<<PyItem(PyStr(S_title), PyStr(<<"B">>))>>)
M_author == PyDict(<<PyItem(PyStr(S_author), PyStr(<<"C">>))>>)
M_router == PyDict(<<PyItem(PyStr(S_title), PyStr(<<"A">>)),
                     PyItem(PyStr(S_author), PyStr(<<"C">>)),
                     PyItem(PyStr(S_thumbnail_url), PyNone)>>)

\* the commands that may raise, by method
AllSites == {"keys", "delete", "info", "setex_t", "get_meta", "setex_m", "get_lang",
             "get_default", "get_any", "delete_lang", "delete_keys", "delete_meta",
             "keys_t", "keys_m"}

(***************************************************************************)
(* SpecDisabled: every operation of both layers, no REDIS_URL configured.  *)
(***************************************************************************)
UDisabled ==
    [UBase EXCEPT !.cfgs = {NoUrlCfg}, !.pings = BOOLEAN, !.fail = BOOLEAN,
                  !.sites = {"keys", "setex_t", "delete_meta"},
                  !.keys = {TEST_KEY1, TEST_KEY2}, !.values = {R_dict, R_none},
                  !.ids = {VID1, VID2}, !.langs = {PyNone, PyStr(EN)},
                  !.texts = {TEXT1}, !.metas = {PyNone, M_router}]
InitDisabled == InitOf(UDisabled)
NextDisabled ==
    \/ CacheGet(UDisabled)
    \/ CacheSet(UDisabled)
    \/ CacheDelete(UDisabled)
    \/ CacheClearAll(UDisabled)
    \/ CacheGetStats(UDisabled)
    \/ SaveTranscript(UDisabled)
    \/ GetTranscript(UDisabled)
    \/ GetMetadata(UDisabled)
    \/ ListStoredVideos(UDisabled)
    \/ DeleteTranscript(UDisabled)
    \/ GetStorageStats(UDisabled)
SpecDisabled == InitDisabled /\ [][NextDisabled]_vars

(***************************************************************************)
(* SpecShared: a memoized function, the Cache Layer and the Storage Layer  *)
(* writing to and deleting from one Redis.  OTHER_KEY is a key some other  *)
(* user of the cache object sets, outside every namespace.                 *)
(***************************************************************************)
OTHER_KEY == <<"y","o","u","t","u","b","e","_","a","p","i","_","v","2",":","k">>
UShared ==
    [UBase EXCEPT !.keys = {TEST_KEY1, OTHER_KEY}, !.values = {R_dict}, !.ttls = {60},
                  !.funcs = {F_sync}, !.calls = {CallOf(VID1)},
                  !.outcomes = {Returns(R_dict)},
                  !.ids = {VID1}, !.langs = {PyNone, PyStr(EN)},
                  !.texts = {TEXT1}, !.metas = {PyNone, M_title1}, !.track = FALSE]
InitShared == InitOf(UShared)
NextShared ==
    \/ sync_wrapper(UShared)
    \/ CacheSet(UShared)
    \/ CacheDelete(UShared)
    \/ CacheClearAll(UShared)
    \/ SaveTranscript(UShared)
    \/ DeleteTranscript(UShared)
SpecShared == InitShared /\ [][NextShared]_vars

(***************************************************************************)
(* SpecClear: clear_all, whose commands may raise, on a backend that holds *)
(* entries of the cache, of the Storage Layer and of another application.  *)
(***************************************************************************)
UClear ==
    [UBase EXCEPT !.keys = {TEST_KEY1, TEST_KEY2, OTHER_KEY}, !.values = {R_dict},
                  !.ttls = {60}, !.sites = {"keys", "delete"},
                  !.ids = {VID1}, !.langs = {PyNone}, !.texts = {TEXT1},
                  !.metas = {PyNone}]
InitClear == InitOf(UClear)
NextClear ==
    \/ CacheSet(UClear)
    \/ CacheClearAll(UClear)
    \/ SaveTranscript(UClear)
SpecClear == InitClear /\ [][NextClear]_vars

(***************************************************************************)
(* SpecConfigured: set without a TTL, under configurations that differ in  *)
(* CACHE_TTL_SECONDS.                                                      *)
(***************************************************************************)
ShortTtlCfg == [redis_url |-> TRUE, cache_ttl_seconds |-> 600]
LongTtlCfg == [redis_url |-> TRUE, cache_ttl_seconds |-> 7200]
UConfigured ==
    [UBase EXCEPT !.cfgs = {DefaultCfg, ShortTtlCfg, LongTtlCfg},
                  !.keys = {TEST_KEY1, TEST_KEY2}, !.values = {R_dict, R_none},
                  !.ttls = {0}]
InitConfigured == InitOf(UConfigured)
NextConfigured ==
    \/ CacheSet(UConfigured)
    \/ CacheDelete(UConfigured)
SpecConfigured == InitConfigured /\ [][NextConfigured]_vars

(***************************************************************************)
(* SpecTasks: two tasks that call one memoized async function with the     *)
(* same arguments and interleave where func suspends; SETEX may raise.     *)
(***************************************************************************)
UTasks ==
    [UBase EXCEPT !.fail = BOOLEAN, !.funcs = {F_async}, !.calls = {CallOf(VID1)},
                  !.outcomes = {Returns(R_dict), Returns(R_empty),
                                Raises("VideoNotFoundError")},
                  !.tasks = {"t1", "t2"}]
InitTasks == InitOf(UTasks)
NextTasks ==
    \/ async_begin(UTasks)
    \/ async_resume(UTasks)
SpecTasks == InitTasks /\ [][NextTasks]_vars

(***************************************************************************)
(* SpecPrefix: saves and deletes of two videos, the identifier of one of   *)
(* which starts with the identifier of the other.                          *)
(***************************************************************************)
VID1_longer == VID1 \o <<"0">>
UPrefix ==
    [UBase EXCEPT !.ids = {VID1, VID1_longer}, !.langs = {PyNone, PyStr(EN)},
                  !.texts = {TEXT1}, !.metas = {PyNone}, !.track = FALSE]
InitPrefix == InitOf(UPrefix)
NextPrefix ==
    \/ SaveTranscript(UPrefix)
    \/ DeleteTranscript(UPrefix)
SpecPrefix == InitPrefix /\ [][NextPrefix]_vars

(***************************************************************************)
(* SpecOutage: every operation of both layers in a process whose           *)
(* connection test may fail when the cache is built, next to another       *)
(* server process that is connected to the same backend and saves          *)
(* transcripts there.                                                      *)
(***************************************************************************)
UOutage ==
    [UBase EXCEPT !.pings = BOOLEAN, !.keys = {TEST_KEY1}, !.values = {R_dict},
                  !.ttls = {60}, !.ids = {VID1}, !.langs = {PyStr(EN)},
                  !.texts = {TEXT1}, !.metas = {PyNone}, !.savers = {"w1"}]
InitOutage == InitOf(UOutage)
NextOutage ==
    \/ CacheGet(UOutage)
    \/ CacheSet(UOutage)
    \/ CacheDelete(UOutage)
    \/ CacheClearAll(UOutage)
    \/ CacheGetStats(UOutage)
    \/ SaveTranscript(UOutage)
    \/ GetTranscript(UOutage)
    \/ GetMetadata(UOutage)
    \/ ListStoredVideos(UOutage)
    \/ DeleteTranscript(UOutage)
    \/ GetStorageStats(UOutage)
    \/ save_setex_transcript(UOutage)
    \/ save_get_metadata(UOutage)
    \/ save_setex_metadata(UOutage)
SpecOutage == InitOutage /\ [][NextOutage]_vars

(***************************************************************************)
(* SpecUnreachable: every operation of both layers on a backend that       *)
(* answered the connection test and whose commands may raise.              *)
(***************************************************************************)
UUnreachable ==
    [UBase EXCEPT !.fail = BOOLEAN, !.sites = AllSites,
                  !.keys = {TEST_KEY1}, !.values = {R_dict}, !.ttls = {60},
                  !.ids = {VID1}, !.langs = {PyNone, PyStr(EN)},
                  !.texts = {TEXT1}, !.metas = {M_title1}, !.track = FALSE]
InitUnreachable == InitOf(UUnreachable)
NextUnreachable ==
    \/ CacheGet(UUnreachable)
    \/ CacheSet(UUnreachable)
    \/ CacheDelete(UUnreachable)
    \/ CacheClearAll(UUnreachable)
    \/ CacheGetStats(UUnreachable)
    \/ SaveTranscript(UUnreachable)
    \/ GetTranscript(UUnreachable)
    \/ GetMetadata(UUnreachable)
    \/ ListStoredVideos(UUnreachable)
    \/ DeleteTranscript(UUnreachable)
    \/ GetStorageStats(UUnreachable)
SpecUnreachable == InitUnreachable /\ [][NextUnreachable]_vars

(***************************************************************************)
(* SpecStorage: saves, reads and deletes of one video's transcripts, in    *)
(* two languages and without one, with metadata given or not, on a backend *)
(* whose metadata read may raise.                                          *)
(***************************************************************************)
UStorage ==
    [UBase EXCEPT !.sites = {"get_meta"},
                  !.ids = {VID1}, !.langs = {PyNone, PyStr(EN), PyStr(ES)},
                  !.texts = {TEXT1}, !.metas = {PyNone, M_title1, M_title2, M_author},
                  !.track = FALSE]
InitStorage == InitOf(UStorage)
NextStorage ==
    \/ SaveTranscript(UStorage)
    \/ GetMetadata(UStorage)
    \/ DeleteTranscript(UStorage)
SpecStorage == InitStorage /\ [][NextStorage]_vars

(***************************************************************************)
(* SpecStamps: saves and deletes of one video's transcripts while the      *)
(* clock advances; the metadata a save supplies may name any field, the    *)
(* record's own `created_at` included.                                     *)
(***************************************************************************)
M_created == PyDict(<<PyItem(PyStr(S_created_at), PyStr(<<"X">>))>>)
UStamps ==
    [UBase EXCEPT !.ids = {VID1}, !.langs = {PyNone, PyStr(EN)}, !.texts = {TEXT1},
                  !.metas = {PyNone, M_title1, M_created}, !.track = FALSE]
InitStamps == InitOf(UStamps)
NextStamps ==
    \/ SaveTranscript(UStamps)
    \/ DeleteTranscript(UStamps)
    \/ Tick
SpecStamps == InitStamps /\ [][NextStamps]_vars

(***************************************************************************)
(* SpecLookup: saves, lookups and deletes of one video's transcripts under *)
(* the default key and two languages; a transcript text may be empty.      *)
(***************************************************************************)
TEXT0 == <<>>
ULookup ==
    [UBase EXCEPT !.ids = {VID1}, !.langs = {PyNone, PyStr(EN), PyStr(ES)},
                  !.texts = {TEXT0, TEXT1, TEXT2}, !.metas = {PyNone},
                  !.track = FALSE]
InitLookup == InitOf(ULookup)
NextLookup ==
    \/ SaveTranscript(ULookup)
    \/ GetTranscript(ULookup)
    \/ GetMetadata(ULookup)
    \/ DeleteTranscript(ULookup)
SpecLookup == InitLookup /\ [][NextLookup]_vars

(***************************************************************************)
(* SpecResave: saves of one video's transcripts, repeated or not, while    *)
(* the clock advances, on a backend whose metadata read may raise.         *)
(***************************************************************************)
UResave ==
    [UBase EXCEPT !.sites = {"get_meta"},
                  !.ids = {VID1}, !.langs = {PyNone, PyStr(EN), PyStr(ES)},
                  !.texts = {TEXT1, TEXT2}, !.metas = {PyNone, M_title1},
                  !.track = FALSE]
InitResave == InitOf(UResave)
NextResave ==
    \/ SaveTranscript(UResave)
    \/ Tick
SpecResave == InitResave /\ [][NextResave]_vars

(***************************************************************************)
(* SpecRace: two server processes, each saving one transcript of the same  *)
(* video, their Redis commands in any order.                               *)
(***************************************************************************)
URace ==
    [UBase EXCEPT !.ids = {VID1}, !.langs = {PyNone, PyStr(EN), PyStr(ES)},
                  !.texts = {TEXT1}, !.metas = {PyNone, M_title1, M_author},
                  !.savers = {"w1", "w2"}, !.track = FALSE]
InitRace == InitOf(URace)
NextRace ==
    \/ save_setex_transcript(URace)
    \/ save_get_metadata(URace)
    \/ save_setex_metadata(URace)
SpecRace == InitRace /\ [][NextRace]_vars

(***************************************************************************)
(* SpecKeys: _generate_key applied to two calls, each a prefix, a list of  *)
(* positional arguments and keyword arguments in call order.               *)
(***************************************************************************)
KeyPrefixes == {<<"t","e","s","t">>, <<"v","i","d","e","o","_","d","a","t","a">>}
A_a == PyStr(<<"a">>)
A_b == PyStr(<<"b">>)
A_ab == PyStr(<<"a", ":", "b">>)
A_kv == PyStr(<<"k", "=", "v">>)
A_v == PyStr(<<"v">>)
KeyArgs == {<<>>, <<A_a>>, <<A_b>>, <<A_ab>>, <<A_a, A_b>>, <<A_b, A_a>>, <<A_kv>>, <<A_a, A_kv>>}
KeyKwargs ==
    {<<>>, << <<<<"k">>, A_v>> >>, << <<<<"j">>, A_v>> >>, << <<<<"k">>, A_a>> >>,
     << <<<<"k">>, A_v>>, <<<<"j">>, A_v>> >>, << <<<<"j">>, A_v>>, <<<<"k">>, A_v>> >>}
KeyCalls == [prefix : KeyPrefixes, args : KeyArgs, kwargs : KeyKwargs]

InitKeys ==
    /\ InitProgram(UBase)
    /\ \E a \in KeyCalls, b \in KeyCalls :
         probe = [NoProbe EXCEPT !.calls = <<a, b>>]

\* both calls are made
generate_keys ==
    /\ ~probe.done
    /\ probe' = [probe EXCEPT !.done = TRUE,
                              !.results = [i \in 1..Len(probe.calls) |->
                                             _generate_key(probe.calls[i].prefix,
                                                           probe.calls[i].args,
                                                           probe.calls[i].kwargs)]]
    /\ UnchangedByProbe

NextKeys == generate_keys
SpecKeys == InitKeys /\ [][NextKeys]_vars

(***************************************************************************)
(* SpecParser: get_youtube_video_id applied to one raw input: an           *)
(* identifier or something like one, bare or inside a URL of one of the    *)
(* documented shapes, with or without a scheme, with or without a tail.    *)
(***************************************************************************)
RawShapes ==
    {<<>>,
     <<"h","t","t","p","s",":","/","/","y","o","u","t","u",".","b","e","/">>,
     <<"h","t","t","p","s",":","/","/","w","w","w",".","y","o","u","t","u","b","e",".","c","o","m","/","w","a","t","c","h","?","v","=">>,
     <<"h","t","t","p",":","/","/","y","o","u","t","u","b","e",".","c","o","m","/","e","m","b","e","d","/">>,
     <<"m",".","y","o","u","t","u","b","e",".","c","o","m","/","w","a","t","c","h","?","v","=">>,
     <<"y","o","u","t","u","b","e",".","c","o","m","/","s","h","o","r","t","s","/">>,
     <<"h","t","t","p","s",":","/","/","m","u","s","i","c",".","y","o","u","t","u","b","e",".","c","o","m","/","l","i","v","e","/">>,
     <<"h","t","t","p","s",":","/","/","w","w","w",".","y","o","u","t","u","b","e",".","c","o","m","/","v","/">>,
     <<"h","t","t","p","s",":","/","/","v","i","m","e","o",".","c","o","m","/">>,
     <<"h","t","t","p","s",":","/","/","w","w","w",".","y","o","u","t","u","b","e",".","c","o","m","/","w","a","t","c","h","?","l","i","s","t","=","P","L","&","v","=">>,
     <<"H","T","T","P","S",":","/","/","Y","o","u","T","u",".","b","e","/">>,
     <<"w","w","w",".","y","o","u","t","u",".","b","e","/">>,
     <<"h","t","t","p","s",":","/","/","[","y","o","u","t","u",".","b","e","/">>,
     <<"h","t","t","p","s",":","/","/","[",":",":","1","]","/">>,
     <<"h","t","t","p","s",":","/","/","[","y","o","u","t","u",".","b","e","]","/">>,
     <<"h","t","t","p","s",":","/","/","u","@","y","o","u","t","u",".","b","e",":","8","0","/">>}
RawIds ==
    {<<"d","Q","w","4","w","9","W","g","X","c","Q">>,
     <<"9","b","Z","k","p","7","q","1","9","f","0">>,
     <<"a","-","b","_","c","-","d","_","e","-","f">>,
     <<"a","b","c">>,
     <<"d","Q","w","4","w","9","W","g","X","c","Q","0">>,
     <<>>,
     <<"y","o","u","t","u","b","e",".","c","o","m">>}
RawTails ==
    {<<>>,
     <<"?","t","=","1">>,
     <<"&","l","i","s","t","=","P","L">>,
     <<"/","x">>,
     <<"#","t">>,
     <<";","p">>}
RawInputs == {shape \o id \o tail : shape \in RawShapes, id \in RawIds, tail \in RawTails}

InitParser ==
    /\ InitProgram(UBase)
    /\ \E url_or_id \in RawInputs : probe = [NoProbe EXCEPT !.calls = <<url_or_id>>]

\* the call is made
parse_input ==
    /\ ~probe.done
    /\ probe' = [probe EXCEPT !.done = TRUE,
                              !.results = <<get_youtube_video_id(probe.calls[1])>>]
    /\ UnchangedByProbe

NextParser == parse_input
SpecParser == InitParser /\ [][NextParser]_vars

(***************************************************************************)
(* SpecRequests: two requests to the memoized fetch operations, each with  *)
(* the raw `url` of its body (an identifier or a URL) and, for captions,   *)
(* the languages; the routers pass them on as they came.                   *)
(***************************************************************************)
\* services/transcript.py:88  @cached(prefix="video_captions", ttl=3600) async def get_captions
F_captions ==
    [name |-> "TranscriptService.get_captions",
     prefix |-> <<"v","i","d","e","o","_","c","a","p","t","i","o","n","s">>, ttl |-> 3600,
     is_async |-> TRUE]
RequestUrls ==
    {<<"d","Q","w","4","w","9","W","g","X","c","Q">>,
     <<"h","t","t","p","s",":","/","/","y","o","u","t","u",".","b","e","/","d","Q","w","4","w","9","W","g","X","c","Q">>,
     <<"h","t","t","p","s",":","/","/","w","w","w",".","y","o","u","t","u","b","e",".","c","o","m","/","w","a","t","c","h","?","v","=","d","Q","w","4","w","9","W","g","X","c","Q">>,
     <<"y","o","u","t","u","b","e",".","c","o","m","/","w","a","t","c","h","?","v","=","d","Q","w","4","w","9","W","g","X","c","Q">>,
     <<"9","b","Z","k","p","7","q","1","9","f","0">>,
     <<"h","t","t","p","s",":","/","/","y","o","u","t","u",".","b","e","/","9","b","Z","k","p","7","q","1","9","f","0">>,
     <<"h","t","t","p","s",":","/","/","v","i","m","e","o",".","c","o","m","/","d","Q","w","4","w","9","W","g","X","c","Q">>}
RequestLanguages == {PyNone, PyList(<<PyStr(EN)>>)}
\* routers/video.py:36 and 53: get_video_data(body.url), get_captions(body.url, body.languages)
Requests ==
    {[f |-> F_async, a |-> CallOf(url)] : url \in RequestUrls}
    \cup {[f |-> F_captions, a |-> [args |-> <<PyStr(url), languages>>, kwargs |-> <<>>]] :
            url \in RequestUrls, languages \in RequestLanguages}

InitRequests ==
    /\ InitProgram(UBase)
    /\ \E r1 \in Requests, r2 \in Requests : probe = [NoProbe EXCEPT !.calls = <<r1, r2>>]

\* for each request, the key async_wrapper looks up and stores under (line
\* 176) and the identifier the wrapped function makes of its url
memo_keys ==
    /\ ~probe.done
    /\ probe' = [probe EXCEPT
                    !.done = TRUE,
                    !.results = [i \in 1..Len(probe.calls) |->
                                   [cache_key |-> CallKey(probe.calls[i].f, probe.calls[i].a),
                                    video_id |->
                                        get_youtube_video_id(probe.calls[i].a.args[1].text).ret]]]
    /\ UnchangedByProbe

NextRequests == memo_keys
SpecRequests == InitRequests /\ [][NextRequests]_vars

(***************************************************************************)
(* SpecShapes: get_youtube_video_id applied to one URL put together from a *)
(* scheme or none, a host, a path shape, an identifier, a tail after it    *)
(* and the fields of a query.                                              *)
(***************************************************************************)
ID_dashed == <<"a","-","b","_","c","-","d","_","e","-","f">>
UrlSchemes == {<<"h","t","t","p","s",":","/","/">>, <<"h","t","t","p",":","/","/">>, <<>>}
PrimaryHosts ==
    {<<"w","w","w",".","y","o","u","t","u","b","e",".","c","o","m">>,
     <<"y","o","u","t","u","b","e",".","c","o","m">>,
     <<"m",".","y","o","u","t","u","b","e",".","c","o","m">>,
     <<"m","u","s","i","c",".","y","o","u","t","u","b","e",".","c","o","m">>}
ShortHosts == {<<"y","o","u","t","u",".","b","e">>, <<"w","w","w",".","y","o","u","t","u",".","b","e">>}
WatchShape == <<"/","w","a","t","c","h">>
ShortShape == <<"/">>
PathShapes == {<<"/","e","m","b","e","d","/">>, <<"/","v","/">>, <<"/","s","h","o","r","t","s","/">>, <<"/","l","i","v","e","/">>}
UrlTails == {<<>>, <<"/","x">>, <<"&","l","i","s","t","=","P","L">>}
\* a field of a query: its name and its value
QField(name, value) == [name |-> name, value |-> value]
QueryFields ==
    {QField(<<"v">>, VID1), QField(<<"v">>, VID2), QField(<<"v">>, <<>>),
     QField(<<"l","i","s","t">>, <<"P","L">>), QField(<<"t">>, <<"1">>)}
Queries == {<<>>} \cup {<<f>> : f \in QueryFields}
           \cup {<<f, g>> : f \in QueryFields, g \in QueryFields}

\* a URL: [scheme, host, shape, id, tail, query]
Url(scheme, host, shape, id, tail, query) ==
    [scheme |-> scheme, host |-> host, shape |-> shape, id |-> id, tail |-> tail,
     query |-> query]

\* watch URLs; URLs of the other shapes with a query; URLs of the other
\* shapes with a tail
Urls ==
    {Url(scheme, host, WatchShape, VID1, <<>>, query) :
        scheme \in UrlSchemes, host \in PrimaryHosts, query \in Queries}
    \cup {Url(scheme, hs[1], hs[2], id, <<>>, query) :
            scheme \in UrlSchemes,
            hs \in (PrimaryHosts \X PathShapes) \cup (ShortHosts \X {ShortShape}),
            id \in {VID1, ID_dashed}, query \in Queries}
    \cup {Url(scheme, hs[1], hs[2], id, tail, <<>>) :
            scheme \in UrlSchemes,
            hs \in (PrimaryHosts \X PathShapes) \cup (ShortHosts \X {ShortShape}),
            id \in {VID1, ID_dashed}, tail \in UrlTails}

RECURSIVE QueryText(_)
\* the fields of a query joined with `&`
QueryText(q) ==
    IF Len(q) = 0 THEN <<>>
    ELSE q[1].name \o <<"=">> \o q[1].value
         \o (IF Len(q) = 1 THEN <<>> ELSE <<"&">> \o QueryText(Tail(q)))

\* the URL as the caller writes it
RawUrl(c) ==
    c.scheme \o c.host
    \o (IF c.shape = WatchShape THEN WatchShape ELSE c.shape \o c.id \o c.tail)
    \o (IF c.query = <<>> THEN <<>> ELSE <<"?">> \o QueryText(c.query))

InitShapes ==
    /\ InitProgram(UBase)
    /\ \E c \in Urls : probe = [NoProbe EXCEPT !.calls = <<c>>]

\* the call is made
parse_url ==
    /\ ~probe.done
    /\ probe' = [probe EXCEPT !.done = TRUE,
                              !.results = <<With(RawUrl(probe.calls[1]), LAMBDA url_or_id :
                                                  get_youtube_video_id(url_or_id))>>]
    /\ UnchangedByProbe

NextShapes == parse_url
SpecShapes == InitShapes /\ [][NextShapes]_vars

(***************************************************************************)
(* SpecFallback: _get_transcript_with_fallback applied to a list of        *)
(* available languages and a preferred list or None.                       *)
(***************************************************************************)
MaxAvailable == 3
MaxPreferred == 2
LanguageCodes == {PyStr(EN), PyStr(ES), PyStr(<<"f","r">>)}
ListsUpTo(n) == {PyList(xs) : xs \in UNION {[1..k -> LanguageCodes] : k \in 0..n}}

InitFallback ==
    /\ InitProgram(UBase)
    /\ \E available_languages \in ListsUpTo(MaxAvailable),
          languages \in {PyNone} \cup ListsUpTo(MaxPreferred) :
         probe = [NoProbe EXCEPT !.calls = <<[available_languages |-> available_languages,
                                              languages |-> languages]>>]

\* the call is made
select_language ==
    /\ ~probe.done
    /\ probe' = [probe EXCEPT !.done = TRUE,
                              !.results = <<_get_transcript_with_fallback(
                                                probe.calls[1].available_languages,
                                                probe.calls[1].languages)>>]
    /\ UnchangedByProbe

NextFallback == select_language
SpecFallback == InitFallback /\ [][NextFallback]_vars

(***************************************************************************)
(* SpecEndpoint: POST /transcripts/save for one video whose transcripts    *)
(* exist in any list of languages, requested with any preferred list or    *)
(* none.  The memoized services are taken at a miss; the entries they      *)
(* leave in the key space are under other prefixes and are left out.       *)
(***************************************************************************)
\* routers/storage.py save_transcript: `available` is what api.list gives for
\* the video.  The record of the step holds the language that was fetched
\* and the language the transcript was stored under.
save_transcript_endpoint(U) ==
    \E video_id \in U.ids, available \in ListsUpTo(MaxAvailable),
       body_languages \in {PyNone} \cup ListsUpTo(MaxPreferred),
       metadata \in U.metas, ping \in Pings(U) :
        /\ \E storage \in {get_storage(ping)},
              fetched \in {_get_transcript_with_fallback(available, body_languages)},
              used \in {used_language(available, body_languages)} :
              IF ~storage.enabled \/ fetched.exc # ""
              THEN CommitStorage(storage, store,
                       Record("save_endpoint", video_id, PyNone,
                              Out(PyBool(FALSE), "", store, 0, {}), 0, NoOutcome, TRUE),
                       supplied)
              ELSE \E r \in {storage_save_transcript(storage, store, video_id,
                                                     captions_in(fetched.lang), used,
                                                     metadata, now, {})} :
                       CommitStorage(storage, r.st,
                           Record("save_endpoint", video_id,
                                  PyTuple(<<fetched.lang, used>>), r, 0, NoOutcome, TRUE),
                           [supplied EXCEPT ![video_id] = AfterSave(@, r, used, metadata)])
        /\ UNCHANGED <<settings, now>>

UEndpoint ==
    [UBase EXCEPT !.cfgs = {DefaultCfg, NoUrlCfg}, !.ids = {VID1}, !.metas = {M_router},
                  !.track = FALSE]
InitEndpoint == InitOf(UEndpoint)
NextEndpoint == save_transcript_endpoint(UEndpoint)
SpecEndpoint == InitEndpoint /\ [][NextEndpoint]_vars

(***************************************************************************)
(* Memoization.                                                            *)
(***************************************************************************)
\* a memoized call has just completed
Called == last.op = "call"
\* ... right after a call with the same arguments that ran undisturbed, within TTL
CalledAgain == Called /\ last.solo /\ last.prev.op = "call" /\ last.prev.clean

\* C1 (as claimed): with the backend enabled and within TTL, the second of two
\* calls in sequence with the same arguments does not invoke the underlying
\* function, whatever the first call's function returned.
C1_AtMostOnce ==
    (CalledAgain /\ enabled /\ last.errs = {} /\ ~last.prev.raised) => last.invocations = 0

\* C2: when the underlying function raises, the caller gets that error, the
\* call leaves the key space as it was, and the next call with the same
\* arguments invokes the function again.
C2_ErrorsNotCached ==
    /\ []((Called /\ last.func.exc # "") => (last.exc = last.func.exc /\ last.ret = PyNone))
    /\ [][(last'.seq # last.seq /\ last'.op = "call" /\ last'.func.exc # "")
              => store' = store]_vars
    /\ []((CalledAgain /\ last.prev.raised) => last.invocations = 1)
C2_Witness ==
    /\ CalledAgain /\ enabled /\ last.prev.raised /\ last.prev.invoked
    /\ last.invocations = 1 /\ last.exc = "VideoNotFoundError"

\* C3: a memoized call during which GET and/or SETEX raised has invoked the
\* underlying function exactly once and returns or raises exactly what the
\* function did.
C3_BackendFailureSwallowed ==
    (Called /\ last.errs # {}) =>
        (last.invocations = 1 /\ last.ret = last.func.ret /\ last.exc = last.func.exc)
C3_Witness ==
    Called /\ last.errs = {"get", "setex"} /\ last.invocations = 1 /\ last.ret = R_tuple

\* C4: with the backend disabled every memoized call invokes the underlying
\* function once, and so did the call before it, and returns its result.
C4_DisabledAlwaysInvokes ==
    (Called /\ ~enabled) =>
        /\ last.invocations = 1 /\ last.ret = last.func.ret /\ last.exc = last.func.exc
        /\ last.prev.op = "call" => last.prev.invoked
C4_Witness ==
    /\ CalledAgain /\ ~enabled /\ last.prev.invoked /\ ~last.prev.raised
    /\ last.invocations = 1 /\ last.ret = R_tuple

(***************************************************************************)
(* The Cache Layer's round trip.                                           *)
(***************************************************************************)
\* json.dumps accepts v
Serializable(v) == json_dumps(v) # JsonTypeError

RECURSIVE JsonNative(_)
\* v is built from None, bool, int, str, list and dict with str keys only
JsonNative(v) ==
    CASE v.ty \in {"NoneType", "bool", "int", "str"} -> TRUE
      [] v.ty = "list" -> \A i \in 1..Len(v.items) : JsonNative(v.items[i])
      [] v.ty = "dict" -> \A i \in 1..Len(v.items) :
                              /\ v.items[i].items[1].ty = "str"
                              /\ JsonNative(v.items[i].items[2])
      [] OTHER -> FALSE

\* a set has completed on an enabled backend without a failing command
SetDone == last.op = "set" /\ enabled /\ last.errs = {}
\* a get has completed right after such a set of the same key, no tick between
GotAfterSet ==
    /\ last.op = "get" /\ enabled /\ last.errs = {}
    /\ last.prev.op = "set" /\ last.prev.clean

\* C5 (as claimed): for every value json.dumps accepts, set returns True and
\* the get right after it returns a value equal to the one set.
C5_RoundTrip ==
    /\ (SetDone /\ Serializable(last.arg)) => last.ret = PyBool(TRUE)
    /\ (GotAfterSet /\ Serializable(last.prev.arg)) => last.ret = last.prev.arg

\* C5 (amended): for every value built from None, bool, int, str, list and
\* str-keyed dict, set returns True and the get right after it returns a value
\* equal to the one set.
C5_RoundTripNative ==
    /\ (SetDone /\ JsonNative(last.arg)) => last.ret = PyBool(TRUE)
    /\ (GotAfterSet /\ JsonNative(last.prev.arg)) => last.ret = last.prev.arg
C5_Witness == GotAfterSet /\ last.prev.arg = R_dict /\ last.ret = R_dict

(***************************************************************************)
(* The backend-disabled law.                                               *)
(***************************************************************************)
\* what each operation returns when its layer is disabled
DisabledResult(op) ==
    CASE op \in {"get", "get_transcript", "get_metadata"} -> PyNone
      [] op \in {"set", "delete", "clear_all", "save", "delete_transcript"} -> PyBool(FALSE)
      [] op = "list_stored_videos" -> PyList(<<>>)
      [] op = "get_stats" -> PyDict(<<PyItem(PyStr(S_enabled), PyBool(FALSE)),
                                      PyItem(PyStr(S_status), PyStr(S_disabled))>>)
      [] op = "get_storage_stats" -> PyDict(<<PyItem(PyStr(S_enabled), PyBool(FALSE))>>)
      [] OTHER -> PyNone

LayerOps ==
    {"get", "set", "delete", "clear_all", "get_stats", "save", "get_transcript",
     "get_metadata", "list_stored_videos", "delete_transcript", "get_storage_stats"}

\* C6: with no backend URL configured both layers report enabled = false, and
\* every operation of either layer returns its disabled result, raises
\* nothing and issues no backend command.
C6_DisabledLaw ==
    ~settings.redis_url =>
        /\ ~enabled /\ ~storage_enabled /\ store = <<>>
        /\ last.op \in LayerOps =>
              (last.ret = DisabledResult(last.op) /\ last.exc = "" /\ last.calls = 0)
C6_Witness ==
    /\ ~settings.redis_url /\ storage_instance /\ last.op = "save"
    /\ last.ret = PyBool(FALSE) /\ last.calls = 0
    /\ last.prev.op = "get_transcript"

(***************************************************************************)
(* Soft failure.                                                           *)
(***************************************************************************)
\* every command the last operation issued raised: the backend was
\* unreachable while it ran
AllRaised == last.calls > 0 /\ last.calls = Cardinality(last.errs)

NS_cache == <<"y","o","u","t","u","b","e","_","a","p","i",":">>
NS_transcript ==
    <<"t","r","a","n","s","c","r","i","p","t","_","s","t","o","r","a","g","e",":">>
NS_metadata ==
    <<"t","r","a","n","s","c","r","i","p","t","_","m","e","t","a","d","a","t","a",":">>

\* C8: a clear_all that returns True deletes every key that starts with
\* `youtube_api:`; no clear_all creates a key or changes or deletes any other
\* key, the Storage Layer's transcript and metadata keys among them.
C8_ClearAllFrame ==
    [][last'.op = "clear_all" =>
          /\ DOMAIN store' \subseteq DOMAIN store
          /\ \A k \in DOMAIN store' : store'[k] = store[k]
          /\ \A k \in DOMAIN store :
                /\ (last'.ret = PyBool(TRUE) /\ StartsWith(k, NS_cache)) => k \notin DOMAIN store'
                /\ ~StartsWith(k, NS_cache) => k \in DOMAIN store'
                /\ store[k].by \in {"transcript", "metadata"} => k \in DOMAIN store']_vars
C8_Witness ==
    /\ last.op = "clear_all" /\ last.ret = PyBool(TRUE) /\ last.calls = 2
    /\ OTHER_KEY \in DOMAIN store
    /\ \E k \in DOMAIN store : store[k].by = "transcript"
    /\ \E k \in DOMAIN store : store[k].by = "metadata"

\* C9: every key the decorator wrote starts with `youtube_api:`, every key
\* save_transcript wrote a transcript to with `transcript_storage:`, every key
\* it wrote metadata to with `transcript_metadata:`, and no key of the backend
\* starts with more than one of the three.
C9_Namespaces ==
    \A k \in DOMAIN store :
        /\ store[k].by = "cached" => StartsWith(k, NS_cache)
        /\ store[k].by = "transcript" => StartsWith(k, NS_transcript)
        /\ store[k].by = "metadata" => StartsWith(k, NS_metadata)
        /\ Cardinality({p \in {NS_cache, NS_transcript, NS_metadata} : StartsWith(k, p)}) <= 1
C9_Witness ==
    /\ \E k \in DOMAIN store : store[k].by = "cached"
    /\ \E k \in DOMAIN store : store[k].by = "transcript" /\ StartsWith(k, NS_transcript)
    /\ \E k \in DOMAIN store : store[k].by = "metadata"

(***************************************************************************)
(* The storage merge law.                                                  *)
(***************************************************************************)
\* the metadata record of video_id as the backend holds it, None when absent
StoredMetadata(video_id) ==
    LET k == NS_metadata \o video_id
    IN  IF k \in DOMAIN store /\ store[k].val.ty = "object" THEN json_loads(store[k].val)
        ELSE PyNone

\* record m holds every attribute of attrs with its value, and every
\* language of langs in its language list
Holds(m, attrs, langs) ==
    /\ \A i \in 1..Len(attrs.items) :
          /\ DictHas(m, attrs.items[i].items[1])
          /\ DictGet(m, attrs.items[i].items[1]) = attrs.items[i].items[2]
    /\ langs # {} => DictHas(m, PyStr(<<"l","a","n","g","u","a","g","e","s">>))
    /\ \A l \in langs :
          ListHas(DictGet(m, PyStr(<<"l","a","n","g","u","a","g","e","s">>)), PyStr(l))

\* C10 (as claimed): after successful saves of one video id, with no delete
\* in between, the metadata record holds every attribute any of them
\* supplied, with its latest value, and every language any of them supplied.
C10_MergeLaw ==
    \A id \in DOMAIN supplied :
        (supplied[id].valid /\ (supplied[id].langs # {} \/ Truthy(supplied[id].attrs))) =>
            /\ StoredMetadata(id).ty = "dict"
            /\ Holds(StoredMetadata(id), supplied[id].attrs, supplied[id].langs)

(***************************************************************************)
(* Timestamps.                                                             *)
(***************************************************************************)
F_created_at == PyStr(S_created_at)
F_last_updated == PyStr(S_last_updated)

\* the metadata record of a video in a store (None when there is none)
MetadataIn(st, video_id) ==
    LET k == NS_metadata \o video_id
    IN  IF k \in DOMAIN st /\ st[k].val.ty = "object" THEN json_loads(st[k].val)
        ELSE PyNone

\* a step of a save that returned True (the clock stands still during it)
SavedStep == now' = now /\ last'.op = "save" /\ last'.ret = PyBool(TRUE)

\* C11 (as claimed): a successful save leaves a record whose last_updated is
\* the time of the save and that has a created_at; when the record before
\* the save had a created_at, the record after it has the same one.
C11_CreatedOnce ==
    [][SavedStep =>
          LET before == MetadataIn(store, last'.key)
              after == MetadataIn(store', last'.key)
          IN  /\ after.ty = "dict"
              /\ DictHas(after, F_last_updated)
              /\ DictGet(after, F_last_updated) = PyStr(IsoFormat(now))
              /\ DictHas(after, F_created_at)
              /\ (before.ty = "dict" /\ DictHas(before, F_created_at)
                    => DictGet(after, F_created_at) = DictGet(before, F_created_at))]_vars

(***************************************************************************)
(* Deletion.                                                               *)
(***************************************************************************)
\* the storage keys of a video in a store: its default key and the keys of
\* its language variants
TranscriptKeysIn(st, video_id) ==
    {k \in DOMAIN st : k = NS_transcript \o video_id
                       \/ StartsWith(k, NS_transcript \o video_id \o Colon)}

LookupLanguages == {PyNone, PyStr(EN), PyStr(ES)}

\* a storage whose backend answered the connection test
EnabledStorage == TranscriptStorage_init(RedisCache_init(DefaultCfg, CACHE_TTL_PARAM, TRUE))

\* a step of a delete_transcript that returned True
DeletedStep == last'.op = "delete_transcript" /\ last'.ret = PyBool(TRUE)

\* C12: after a delete_transcript(id) without a language that returned
\* True the store holds no transcript of id under any key and no metadata
\* record of id; get_metadata(id) and get_transcript(id, language) then
\* return None for every language and for no language.
C12_DeleteAll ==
    [][DeletedStep /\ ~Truthy(last'.arg) =>
          /\ TranscriptKeysIn(store', last'.key) = {}
          /\ NS_metadata \o last'.key \notin DOMAIN store'
          /\ LET storage == EnabledStorage
             IN  /\ storage_get_metadata(storage, store', last'.key, FALSE).ret = PyNone
                 /\ \A language \in LookupLanguages :
                    \A pick \in FirstKeys(store', last'.key) :
                        storage_get_transcript(storage, store', last'.key, language,
                                               pick, {}).ret = PyNone]_vars

\* a delete without a language found transcripts, deleted them and deleted
\* the metadata record
C12_Witness ==
    /\ last.op = "delete_transcript" /\ last.ret = PyBool(TRUE) /\ ~Truthy(last.arg)
    /\ last.calls = 3
    /\ TranscriptKeysIn(store, last.key) = {}

\* the store without one key
Without(st, key) == [k \in DOMAIN st \ {key} |-> st[k]]

\* C13: a delete_transcript(id, language) with a language that returned
\* True removes the entry under (id, language) and nothing else: the
\* metadata record, the default-key transcript and the other language
\* variants are as they were.
C13_DeleteOneFrame ==
    [][DeletedStep /\ Truthy(last'.arg) =>
          store' = Without(store, NS_transcript \o last'.key \o Colon \o last'.arg.text)]_vars

\* a delete of one language has left the metadata record, which still names
\* that language, the default-key transcript and another language variant
C13_Witness ==
    /\ last.op = "delete_transcript" /\ last.ret = PyBool(TRUE) /\ Truthy(last.arg)
    /\ NS_transcript \o last.key \o Colon \o last.arg.text \notin DOMAIN store
    /\ NS_transcript \o last.key \in DOMAIN store
    /\ Cardinality(TranscriptKeysIn(store, last.key)) = 2
    /\ LET m == MetadataIn(store, last.key)
       IN  /\ m.ty = "dict" /\ DictHas(m, PyStr(S_languages))
           /\ ListHas(DictGet(m, PyStr(S_languages)), last.arg)

(***************************************************************************)
(* Lookup.                                                                 *)
(***************************************************************************)
\* the text of an entry, as the str a GET returns
TextAt(st, key) == PyStr(st[key].val.text)

\* the keys of the language variants of a video in a store
ScopedKeysIn(st, video_id) ==
    {k \in DOMAIN st : StartsWith(k, NS_transcript \o video_id \o Colon)}

\* a completed get_transcript on an enabled storage
LookedUp == last.op = "get_transcript" /\ enabled

\* C14 (as claimed): get_transcript(id, language) returns the transcript
\* stored under (id, language) when a language is requested and that entry
\* exists; otherwise the transcript under the default key when that entry
\* exists; otherwise the transcript of one of the language variants when
\* there is one; None only when all three find nothing.
C14_LookupOrder ==
    LookedUp =>
        LET id == last.key
            specific == NS_transcript \o id \o Colon \o last.arg.text
            default == NS_transcript \o id
        IN  IF Truthy(last.arg) /\ specific \in DOMAIN store
            THEN last.ret = TextAt(store, specific)
            ELSE IF default \in DOMAIN store THEN last.ret = TextAt(store, default)
            ELSE IF ScopedKeysIn(store, id) # {}
            THEN \E k \in ScopedKeysIn(store, id) : last.ret = TextAt(store, k)
            ELSE last.ret = PyNone

(***************************************************************************)
(* Idempotence of a save.                                                  *)
(***************************************************************************)
\* the fields of a metadata record other than last_updated, each with its
\* value (a dict has no order)
SansLastUpdated(m) ==
    IF m.ty = "dict"
    THEN {m.items[i] : i \in {j \in 1..Len(m.items) : m.items[j].items[1] # F_last_updated}}
    ELSE {}

\* the key a save(transcript, language, metadata) of a video writes its body to
BodyKey(video_id, arg) ==
    IF Truthy(arg.items[2]) THEN NS_transcript \o video_id \o Colon \o arg.items[2].text
    ELSE NS_transcript \o video_id

\* the operation that completed before this step was a save that returned True
SavedBefore == last.op = "save" /\ last.ret = PyBool(TRUE)

\* C15 (as claimed): a successful save stores the body it was given under
\* (id, language); when the operation before it was a successful save with
\* the same arguments, the stored transcripts are the same after it and the
\* metadata record is the same but for last_updated.
C15_SaveIdempotent ==
    [][SavedStep =>
          /\ BodyKey(last'.key, last'.arg) \in DOMAIN store'
          /\ store'[BodyKey(last'.key, last'.arg)].val.text = last'.arg.items[1].text
          /\ (SavedBefore /\ last.key = last'.key /\ last.arg = last'.arg
                => /\ TranscriptKeysIn(store', last'.key) = TranscriptKeysIn(store, last'.key)
                   /\ \A k \in TranscriptKeysIn(store, last'.key) : store'[k].val = store[k].val
                   /\ MetadataIn(store', last'.key).ty = MetadataIn(store, last'.key).ty
                   /\ SansLastUpdated(MetadataIn(store', last'.key))
                        = SansLastUpdated(MetadataIn(store, last'.key)))]_vars

(***************************************************************************)
(* Concurrent saves.                                                       *)
(***************************************************************************)
\* process w has returned True from its save
SavedBy(w) == saving[w].pc = "done" /\ saving[w].ret = PyBool(TRUE)

\* the record of the video lacks the language or an attribute that the
\* save of process w wrote
LostUpdateOf(w) ==
    LET m == MetadataIn(store, saving[w].video_id)
        language == saving[w].language
        metadata == saving[w].metadata
    IN  \/ m.ty # "dict"
        \/ /\ Truthy(language)
           /\ ~(DictHas(m, PyStr(S_languages))
                /\ ListHas(DictGet(m, PyStr(S_languages)), language))
        \/ /\ Truthy(metadata)
           /\ \E i \in 1..Len(metadata.items) : ~DictHas(m, metadata.items[i].items[1])

\* C16: an update is lost only through the race: when both saves have
\* returned True and the record lacks what one of them wrote, the other
\* process wrote its merge of a record it had read before the first one's
\* write (that state is reachable: nothing prevents the interleaving).
C16_LostOnlyByStaleMerge ==
    \A w \in DOMAIN saving :
        SavedBy(w) /\ LostUpdateOf(w) /\ (\A v \in DOMAIN saving : SavedBy(v))
            => \E v \in DOMAIN saving \ {w} : saving[v].stale

\* both saves returned True and the record lacks the language or attribute
\* written by one of them
C16_Witness ==
    /\ DOMAIN saving # {}
    /\ \A v \in DOMAIN saving : SavedBy(v)
    /\ \E w \in DOMAIN saving : LostUpdateOf(w)

(***************************************************************************)
(* Key generation.                                                         *)
(***************************************************************************)
\* the keyword arguments of a call as a mapping: the order they were
\* written in is not part of the call
KwargsOf(c) == {c.kwargs[i] : i \in 1..Len(c.kwargs)}

\* two calls with the same prefix, the same positional arguments in the
\* same order and the same keyword arguments
SameCall(c, d) == c.prefix = d.prefix /\ c.args = d.args /\ KwargsOf(c) = KwargsOf(d)

\* C17: _generate_key yields the same key for two calls with the same
\* prefix, the same positional arguments in the same order and the same
\* keyword arguments, in whatever order the keyword arguments are written.
C17_KeyDeterministic ==
    probe.done /\ SameCall(probe.calls[1], probe.calls[2])
        => probe.results[1] = probe.results[2]

\* two calls that write the same two keyword arguments in different orders
\* got the same key
C17_Witness ==
    /\ probe.done
    /\ SameCall(probe.calls[1], probe.calls[2])
    /\ probe.calls[1].kwargs # probe.calls[2].kwargs
    /\ probe.calls[1].args # <<>>
    /\ probe.results[1] = probe.results[2]

\* C18 (as claimed): with an injective hash, _generate_key yields different
\* keys for two calls that differ in the prefix, in the positional
\* arguments or in the keyword arguments.
C18_KeyInjective ==
    probe.done /\ ~SameCall(probe.calls[1], probe.calls[2])
        => probe.results[1] # probe.results[2]

(***************************************************************************)
(* The identifier parser.                                                  *)
(***************************************************************************)
IdAlphabet ==
    {"0", "1", "2", "3", "4", "5", "6", "7", "8", "9", "-", "_",
     "A", "B", "C", "D", "E", "F", "G", "H", "I", "J", "K", "L", "M",
     "N", "O", "P", "Q", "R", "S", "T", "U", "V", "W", "X", "Y", "Z",
     "a", "b", "c", "d", "e", "f", "g", "h", "i", "j", "k", "l", "m",
     "n", "o", "p", "q", "r", "s", "t", "u", "v", "w", "x", "y", "z"}

\* a string of exactly 11 characters, each alphanumeric or `-` or `_`
WellFormedId(x) == Len(x) = 11 /\ \A i \in 1..Len(x) : x[i] \in IdAlphabet

\* C20: for an input of exactly 11 characters, each alphanumeric or `-` or
\* `_`, get_youtube_video_id returns the input itself and has not taken it
\* through the URL parsing.
C20_DirectIdUnchanged ==
    probe.done /\ Len(probe.calls) = 1 /\ WellFormedId(probe.calls[1])
        => /\ probe.results[1].ret = PyStr(probe.calls[1])
           /\ ~probe.results[1].as_url

\* a bare identifier with `-` and `_` in it came back unchanged
C20_Witness ==
    /\ probe.done /\ Len(probe.calls) = 1 /\ WellFormedId(probe.calls[1])
    /\ \E i, j \in 1..11 : probe.calls[1][i] = "-" /\ probe.calls[1][j] = "_"
    /\ probe.results[1].ret = PyStr(probe.calls[1])

(***************************************************************************)
(* The memoization key and the canonical identifier.                       *)
(***************************************************************************)
\* C19 (as claimed): two requests to the same fetch operation whose raw
\* inputs parse to the same identifier and whose other arguments are equal
\* use the same cache key.
C19_KeyFromCanonicalId ==
    probe.done /\ Len(probe.calls) = 2
        => LET r1 == probe.calls[1]
               r2 == probe.calls[2]
           IN  /\ r1.f = r2.f
               /\ Tail(r1.a.args) = Tail(r2.a.args)
               /\ r1.a.kwargs = r2.a.kwargs
               /\ probe.results[1].video_id # PyNone
               /\ probe.results[1].video_id = probe.results[2].video_id
               => probe.results[1].cache_key = probe.results[2].cache_key

(***************************************************************************)
(* The supported URL shapes.                                               *)
(***************************************************************************)
\* the fields of a query that are named `v`
VFields(q) == SelectSeq(q, LAMBDA f : f.name = <<"v">>)

\* a URL of a supported shape that embeds one well-formed identifier: in
\* the only `v` field of a watch URL, or after the path prefix of the other
\* shapes, which then have no tail and no `v` field
EmbedsOneId(c) ==
    IF c.shape = WatchShape
    THEN Len(VFields(c.query)) = 1 /\ WellFormedId(VFields(c.query)[1].value)
    ELSE c.tail = <<>> /\ VFields(c.query) = <<>> /\ WellFormedId(c.id)

EmbeddedId(c) == IF c.shape = WatchShape THEN VFields(c.query)[1].value ELSE c.id

\* C21: for a URL of a supported shape (watch, short link, embed, /v/,
\* shorts, live; www, bare, mobile and music hosts; http, https or no
\* scheme; with or without list= and t= fields) that embeds an 11-character
\* identifier, get_youtube_video_id returns that identifier.
C21_SupportedShapes ==
    probe.done /\ EmbedsOneId(probe.calls[1])
        => probe.results[1].ret = PyStr(EmbeddedId(probe.calls[1]))

\* a mobile watch URL without a scheme, list= before v=, gave its identifier
C21_Witness ==
    /\ probe.done /\ EmbedsOneId(probe.calls[1])
    /\ probe.calls[1].scheme = <<>>
    /\ probe.calls[1].host = <<"m", ".">> \o S_youtube_com
    /\ probe.calls[1].shape = WatchShape
    /\ Len(probe.calls[1].query) = 2 /\ probe.calls[1].query[2].name = <<"v">>
    /\ probe.results[1].ret = PyStr(probe.calls[1].query[2].value)

\* C22 (as claimed): whatever get_youtube_video_id returns as an identifier
\* has exactly 11 characters, each alphanumeric or `-` or `_`.
C22_ResultWellFormed ==
    probe.done /\ probe.results[1].ret # PyNone
        => probe.results[1].ret.ty = "str" /\ WellFormedId(probe.results[1].ret.text)

\* the fields `v` of a query whose value is not blank
NonBlankV(q) == SelectSeq(VFields(q), LAMBDA f : f.value # <<>>)

\* C23 (as claimed): for a watch URL on a primary host get_youtube_video_id
\* returns the value of the first field `v` of the query, and None when the
\* query has no field `v`, whatever other fields the query has.
C23_FirstV ==
    probe.done /\ probe.calls[1].shape = WatchShape
        => probe.results[1].ret
               = IF VFields(probe.calls[1].query) = <<>> THEN PyNone
                 ELSE PyStr(VFields(probe.calls[1].query)[1].value)

\* C23 (amended): for a watch URL on a primary host get_youtube_video_id
\* returns the first value of `v` that is not blank, and None when the query
\* has no such value, whatever other fields the query has.
C23_FirstNonBlankV ==
    probe.done /\ probe.calls[1].shape = WatchShape
        => /\ probe.calls[1].host \in PrimaryHosts
           /\ probe.results[1].ret
                  = IF NonBlankV(probe.calls[1].query) = <<>> THEN PyNone
                    ELSE PyStr(NonBlankV(probe.calls[1].query)[1].value)

\* a watch URL with two different values of `v` gave the first one
C23_Witness ==
    /\ probe.done /\ probe.calls[1].shape = WatchShape
    /\ Len(NonBlankV(probe.calls[1].query)) = 2
    /\ probe.calls[1].query[1].value # probe.calls[1].query[2].value
    /\ probe.results[1].ret = PyStr(probe.calls[1].query[1].value)

\* C24 (as claimed): for a URL on a short-link host get_youtube_video_id
\* returns the first segment of the path: the text after the leading slash
\* up to the next `/`, cut at the first `?` or `&`.
C24_ShortLinkSegment ==
    probe.done /\ probe.calls[1].host \in ShortHosts
        => probe.results[1].ret
               = PyStr(Before(Before(Before(probe.calls[1].id \o probe.calls[1].tail, "/"),
                                     "?"), "&"))

\* the host of an input: that of the input taken as a URL, else, when the
\* input names youtube.com or youtu.be, that of the input after `https://`;
\* the empty string when there is none
HostOf(url_or_id) ==
    With(urlparse(url_or_id), LAMBDA direct :
        IF direct.exc # "" THEN <<>>
        ELSE IF hostname_of(direct) # <<>> THEN hostname_of(direct)
        ELSE IF IsSubstring(S_youtube_com, url_or_id) \/ IsSubstring(S_youtu_be, url_or_id)
        THEN With(urlparse(S_https \o url_or_id), LAMBDA again :
                 IF again.exc # "" THEN <<>> ELSE hostname_of(again))
        ELSE <<>>)

\* C25: for an input that is not a bare identifier and has no host, or a host
\* that is neither a short-link host nor a primary host, get_youtube_video_id
\* returns None.
C25_NoneWithoutKnownHost ==
    (/\ probe.done
     /\ ~WellFormedId(probe.calls[1])
     /\ HostOf(probe.calls[1]) \notin ShortHosts \cup PrimaryHosts)
        => probe.results[1].ret = PyNone

\* a URL of another site with an identifier as its path gave None
C25_Witness ==
    /\ probe.done /\ probe.results[1].ret = PyNone
    /\ HostOf(probe.calls[1]) = <<"v","i","m","e","o",".","c","o","m">>
    /\ probe.calls[1][Len(probe.calls[1])] = "Q"

\* C26: get_youtube_video_id ends for every input with a string or None and
\* never with an exception, also when urlparse raises, and the call leaves
\* the configuration, the cache and storage objects and the store as they
\* were.
C26_TotalAndPure ==
    /\ [](probe.done => /\ probe.results[1].exc = ""
                        /\ probe.results[1].ret.ty \in {"str", "NoneType"})
    /\ [][(~probe.done /\ probe'.done)
              => UNCHANGED <<settings, cache_instance, enabled, cache_ttl,
                             storage_instance, storage_enabled, store>>]_vars

\* urlparse raised ValueError for a netloc with a stray bracket, and the call
\* returned None
C26_Witness ==
    /\ probe.done
    /\ urlparse(probe.calls[1]).exc = "ValueError"
    /\ probe.results[1] = Parsed(PyNone, TRUE)

\* C27: a clear_all that follows a clear_all that returned True, with no
\* other operation in between, issues no DELETE and leaves every key of the
\* backend, in and outside the namespace, as it was.
C27_ClearAllIdempotent ==
    [][(/\ last'.seq # last.seq /\ last'.op = "clear_all"
        /\ last.op = "clear_all" /\ last.ret = PyBool(TRUE))
           => /\ store' = store
              /\ last'.calls <= 1
              /\ "delete" \notin last'.errs
              /\ (last'.errs = {} /\ enabled') => last'.ret = PyBool(TRUE)]_vars

\* the second of two clear_all in a row returned True after KEYS alone, with
\* keys of the Storage Layer and of another application still there
C27_Witness ==
    /\ last.op = "clear_all" /\ last.prev.op = "clear_all" /\ last.prev.clean
    /\ last.ret = PyBool(TRUE) /\ last.calls = 1
    /\ OTHER_KEY \in DOMAIN store
    /\ \E k \in DOMAIN store : store[k].by = "transcript"

\* C28 (as claimed): an entry that set writes through get_cache() without a
\* TTL of its own expires after the configured CACHE_TTL_SECONDS.
C28_ConfiguredTtl ==
    [][(last'.seq # last.seq /\ last'.op = "set" /\ last'.ret = PyBool(TRUE))
           => /\ last'.key \in DOMAIN store'
              /\ store'[last'.key].ttl = settings.cache_ttl_seconds]_vars

\* the process-wide cache after a step
CacheAfter == [enabled |-> enabled', client |-> enabled', cache_ttl |-> cache_ttl']

\* what sync_wrapper does from the state before a step, for the call of
\* function f with key `key`, when func's outcome and the commands that raise
\* are those of the step
AsSync(f, key, errs_before) ==
    wrapper_body(CacheAfter, store, key, f, last'.func,
                 "get" \in errs_before \cup last'.errs, "setex" \in last'.errs)

\* C29: an async_wrapper call that ran with no other operation in between
\* ends as sync_wrapper does from the same state, for the same arguments,
\* outcome of func and failing commands: same key, same commands, func run
\* once, same entry stored with the same TTL, same value returned or error
\* raised; a call that is answered by the lookup ends without suspending,
\* and a suspended call has done the lookup and nothing else.
C29_WrappersEquivalent ==
    /\ [][\A t \in DOMAIN pending :
             (pending[t].pc = "awaiting" /\ pending'[t].pc = "idle" /\ ~pending[t].mixed)
                 => \E w \in {AsSync(pending[t].f, CallKey(pending[t].f, pending[t].a),
                                     pending[t].errs)} :
                        /\ last'.op = "call"
                        /\ last'.key = CallKey(pending[t].f, pending[t].a)
                        /\ last'.ret = w.r.ret /\ last'.exc = w.r.exc
                        /\ last'.calls = w.r.calls /\ last'.errs = w.r.errs
                        /\ last'.invocations = w.n /\ w.n = 1
                        /\ store' = w.r.st]_vars
    /\ [][(last'.seq # last.seq /\ last'.op = "call" /\ last'.invocations = 0)
             => \E w \in {AsSync(F_async, last'.key, {})} :
                    /\ pending' = Disturb(pending)
                    /\ last'.ret = w.r.ret /\ last'.exc = w.r.exc
                    /\ last'.calls = w.r.calls /\ w.n = 0
                    /\ store' = w.r.st]_vars
    /\ [](\A t \in DOMAIN pending :
             pending[t].pc = "awaiting"
                 => /\ pending[t].f.is_async
                    /\ pending[t].calls = (IF enabled THEN 1 ELSE 0)
                    /\ (~pending[t].mixed /\ "get" \notin pending[t].errs)
                           => ~IsHit(wrapper_lookup(get_cache(TRUE), store,
                                                    CallKey(pending[t].f, pending[t].a),
                                                    FALSE)))

\* an async call is suspended in func after a lookup that missed, while the
\* entry of another call is in the cache
C29_Witness ==
    /\ enabled /\ pending["t1"].pc = "awaiting" /\ ~pending["t1"].mixed
    /\ pending["t1"].calls = 1
    /\ \E k \in DOMAIN store : store[k].by = "cached"

\* the languages of the preferred list that are available, in its order
PreferredAvailable(c) ==
    SelectSeq(c.languages.items, LAMBDA x : ListHas(c.available_languages, x))

\* C30: with at least one language available, the language fetched is the
\* first preferred language that is available; with a preferred list of
\* which none is available, the first available language; without a
\* preference, `en` when it is available and else the first available
\* language.
C30_LanguageChoice ==
    (probe.done /\ probe.calls[1].available_languages.items # <<>>)
        => \E c \in {probe.calls[1]} :
           /\ probe.results[1].exc = ""
           /\ probe.results[1].lang =
                 IF c.languages.items # <<>>
                 THEN IF PreferredAvailable(c) # <<>> THEN PreferredAvailable(c)[1]
                      ELSE c.available_languages.items[1]
                 ELSE IF \E i \in 1..Len(c.available_languages.items) :
                            c.available_languages.items[i] = PyStr(<<"e","n">>)
                      THEN PyStr(<<"e","n">>)
                      ELSE c.available_languages.items[1]

\* none of the two preferred languages is available and English is, but not
\* first: the first available language was fetched
C30_Witness ==
    /\ probe.done
    /\ Len(probe.calls[1].languages.items) = 2
    /\ PreferredAvailable(probe.calls[1]) = <<>>
    /\ Len(probe.calls[1].available_languages.items) = 2
    /\ probe.calls[1].available_languages.items[2] = PyStr(<<"e","n">>)
    /\ probe.results[1].lang = probe.calls[1].available_languages.items[1]
    /\ probe.results[1].lang # PyStr(<<"e","n">>)

\* C31: once get_cache() has built the instance, every later call returns
\* that instance: it is never built again, so what its construction fixed
\* (whether the connection test succeeded, the default TTL) never changes.
C31_OneInstance ==
    [][cache_instance
           => /\ cache_instance'
              /\ enabled' = enabled
              /\ cache_ttl' = cache_ttl
              /\ get_cache(TRUE) = [enabled |-> enabled, client |-> enabled,
                                    cache_ttl |-> cache_ttl]]_vars

\* a second memoized call found the instance whose connection test had
\* failed at the first call, under a configuration that names a server
C31_Witness ==
    /\ cache_instance /\ settings.redis_url /\ ~enabled
    /\ last.op = "call" /\ last.prev.op = "call"

\* a step that completes a memoized call
CallCompletes == last'.seq # last.seq /\ last'.op = "call"
\* a step in which a suspended call resumes, or a call suspends
Resumes == \E t \in DOMAIN pending : pending[t].pc = "awaiting" /\ pending'[t].pc = "idle"
Suspends == \E t \in DOMAIN pending : pending[t].pc = "idle" /\ pending'[t].pc = "awaiting"
\* the lookup of the key in the store before the step gives a value
LookupHits(key, errs) == IsHit(cache_get(CacheAfter, store, key, "get" \in errs))

\* C32: a memoized call whose lookup gives a value returns it without running
\* func and without a put; a call whose lookup gives none runs func exactly
\* once, and the put of func's result happens in the step that follows func's
\* return and ends the call: not while the call is suspended in func, and not
\* at all when func raises.
C32_MissThenPut ==
    /\ [][(CallCompletes /\ ~Resumes)
              => (last'.invocations = 0 <=> LookupHits(last'.key, last'.errs))]_vars
    /\ [][(CallCompletes /\ last'.invocations = 0)
              => /\ store' = store
                 /\ last'.calls = 1 /\ last'.errs = {}
                 /\ last'.ret # PyNone /\ last'.exc = ""]_vars
    /\ [][(CallCompletes /\ last'.invocations # 0)
              => /\ last'.invocations = 1
                 /\ IF last'.func.exc # ""
                    THEN store' = store /\ last'.exc = last'.func.exc
                    ELSE /\ last'.ret = last'.func.ret /\ last'.exc = ""
                         /\ store' = cache_set(CacheAfter, store, last'.key, last'.func.ret,
                                               F_async.ttl, "setex" \in last'.errs,
                                               "cached").st]_vars
    /\ [][Suspends
              => /\ store' = store /\ last' = last
                 /\ \A t \in DOMAIN pending :
                       pending'[t].pc = "awaiting" /\ pending[t].pc = "idle"
                           => ~LookupHits(CallKey(pending'[t].f, pending'[t].a),
                                          pending'[t].errs)]_vars

\* a call missed, ran func once and stored its result with the second command
C32_Witness ==
    /\ last.op = "call" /\ enabled /\ last.invocations = 1 /\ last.calls = 2
    /\ last.errs = {} /\ last.func = Returns(R_tuple)
    /\ last.key \in DOMAIN store /\ store[last.key].by = "cached"

\* the step stored func's result
PutDone ==
    /\ CallCompletes /\ enabled' /\ last'.invocations = 1
    /\ last'.func.exc = "" /\ "setex" \notin last'.errs

\* C33: however the calls of two tasks with the same arguments interleave,
\* a call returns what its own run of func returned, or the value of the
\* entry that a completed call stored under the key; every put replaces the
\* entry by the result of the call that made it, whatever was stored
\* meanwhile, and no other step changes it: the entry is the result of the
\* last put, whole.
C33_LastWriteWins ==
    /\ [][CallCompletes
              => IF last'.invocations = 0
                 THEN /\ last'.key \in DOMAIN store /\ store[last'.key].by = "cached"
                      /\ last'.ret = json_loads(store[last'.key].val)
                 ELSE /\ last'.invocations = 1
                      /\ last'.ret = last'.func.ret /\ last'.exc = last'.func.exc]_vars
    /\ [][IF PutDone
          THEN /\ last'.key \in DOMAIN store'
               /\ store'[last'.key].val = json_dumps(last'.func.ret)
               /\ \A k \in DOMAIN store' \ {last'.key} : k \in DOMAIN store /\ store'[k] = store[k]
          ELSE store' = store]_vars
    /\ [](\A k \in DOMAIN store :
             \E o \in UTasks.outcomes : o.exc = "" /\ store[k].val = json_dumps(o.ret))

\* both tasks ran func for the same arguments at the same time; the one that
\* finished last replaced the entry of the other by its own, different result
C33_Witness ==
    /\ \A t \in DOMAIN pending : pending[t].pc = "idle"
    /\ last.op = "call" /\ ~last.solo /\ last.invocations = 1
    /\ last.prev.op = "call" /\ last.prev.invoked /\ ~last.prev.raised
    /\ last.func = Returns(R_empty)
    /\ store[last.key].val = json_dumps(R_empty)

\* C34 (as claimed): right after a save_transcript(id, t, language) that
\* returned True, get_transcript(id, language) returns t, for every text t,
\* the empty one included, and with or without a language.
C34_ReadYourWrites ==
    [][SavedStep =>
          \A pick \in FirstKeys(store', last'.key) :
              storage_get_transcript(EnabledStorage, store', last'.key,
                                     last'.arg.items[2], pick, {}).ret
                  = last'.arg.items[1]]_vars

\* C35 (as claimed): delete_transcript(id), with or without a language,
\* leaves every key that is not a transcript key or the metadata key of id
\* as it was, also the keys of a video whose identifier starts with id.
C35_DeleteFrame ==
    [][last'.op = "delete_transcript" =>
          \A k \in DOMAIN store :
              (k \notin TranscriptKeysIn(store, last'.key) /\ k # NS_metadata \o last'.key)
                  => k \in DOMAIN store' /\ store'[k] = store[k]]_vars

\* the languages a metadata record names
LanguagesOf(m) ==
    IF m.ty = "dict" /\ DictHas(m, PyStr(S_languages))
    THEN {DictGet(m, PyStr(S_languages)).items[i] :
              i \in 1..Len(DictGet(m, PyStr(S_languages)).items)}
    ELSE {}

\* C36 (as claimed): a save of a video that has a metadata record leaves a
\* record with every field and every language of the record before and with
\* its created_at, also when the read of the record raises during the save.
C36_RecordKept ==
    [][(now' = now /\ last'.op = "save" /\ MetadataIn(store, last'.key).ty = "dict")
           => \E before \in {MetadataIn(store, last'.key)},
                 after \in {MetadataIn(store', last'.key)} :
                  /\ after.ty = "dict"
                  /\ \A i \in 1..Len(before.items) : DictHas(after, before.items[i].items[1])
                  /\ DictHas(before, F_created_at)
                        => DictGet(after, F_created_at) = DictGet(before, F_created_at)
                  /\ LanguagesOf(before) \subseteq LanguagesOf(after)]_vars

\* C37 (as claimed): a save_transcript that returns False has changed
\* neither the transcript under (id, language) nor the metadata record of id.
C37_AllOrNothing ==
    [][(last'.op = "save" /\ last'.ret = PyBool(FALSE))
           => \A k \in {BodyKey(last'.key, last'.arg), NS_metadata \o last'.key} :
                  /\ k \in DOMAIN store' <=> k \in DOMAIN store
                  /\ k \in DOMAIN store => store'[k] = store[k]]_vars

\* C38 (as claimed): a transcript is stored under (id, language) exactly
\* when the metadata record of id names that language.
C38_LanguagesMatch ==
    \A id \in DOMAIN supplied : \A l \in {EN, ES} :
        (NS_transcript \o id \o Colon \o l \in DOMAIN store)
            <=> PyStr(l) \in LanguagesOf(StoredMetadata(id))

\* C39 (as claimed): the language the /transcripts/save handler stores a
\* transcript under is the language the fetcher fetched it in.
C39_StoredUnderFetched ==
    (last.op = "save_endpoint" /\ last.arg # PyNone)
        => /\ last.arg.items[2] = last.arg.items[1]
           /\ store[NS_transcript \o last.key \o Colon \o last.arg.items[2].text].val.text
                  = captions_in(last.arg.items[2])

\* C40: a cache whose connection test failed when it was built stays
\* disabled, and so does the storage layer on it: enabled never becomes true
\* again, and every operation of either layer returns its disabled result,
\* raises nothing, issues no backend command and leaves the key space as it
\* is, whatever the backend holds by then.
C40_StaysDisabled ==
    /\ []((cache_instance /\ ~enabled /\ last.op \in LayerOps)
             => (last.ret = DisabledResult(last.op) /\ last.exc = "" /\ last.calls = 0))
    /\ [][(cache_instance /\ ~enabled)
             => /\ cache_instance' /\ ~enabled' /\ ~storage_enabled'
                /\ last' # last => store' = store]_vars

\* the connection test failed in a process with a backend URL, another
\* process has stored a transcript since, and a read of that transcript in
\* the disabled process gave None without a command
C40_Witness ==
    /\ settings.redis_url /\ cache_instance /\ ~enabled /\ storage_instance
    /\ NS_transcript \o VID1 \o Colon \o EN \in DOMAIN store
    /\ last.op = "get_transcript" /\ last.ret = PyNone /\ last.calls = 0
    /\ last.prev.op = "save"

====
